---- MODULE Spec2Model ----
(***************************************************************************)
(* A model of anna-dl: the modal terminal controller (src/ui/app.rs), the  *)
(* controller loop that polls the command channel (src/main.rs, run_app),  *)
(* the background tasks the key handlers spawn, and the search client      *)
(* with its query cache and HTML parsers (src/scraper.rs, src/cache.rs),   *)
(* the download engine (src/downloader.rs) and the non-interactive run    *)
(* (src/main.rs, run_non_interactive).                                     *)
(*                                                                         *)
(* Rust values are represented as follows.  Option<T> is a set with at     *)
(* most one element ({} is None).  A String that the program edits or      *)
(* truncates is a sequence of one-character strings.  A usize index i      *)
(* into a Vec addresses element i + 1 of the sequence.  A formatted        *)
(* message is a record of its literal text and its arguments.  A String    *)
(* that the program searches (a URL, an href, a class name, the text of a  *)
(* link, a header) is a sequence of pieces, and str::contains(w) is true   *)
(* when w is one of the pieces; the characters the program splits at or    *)
(* trims ('/', '?', '"', ' ') are pieces of their own.                     *)
(***************************************************************************)
EXTENDS Integers, Sequences, FiniteSets, TLC

VARIABLES
    app,         \* the fields of ui::App that the controller mutates
    command_rx,  \* messages sent on command_tx and not yet received
    tasks,       \* the tokio tasks spawned by the handlers, still running
    pc,          \* position of run_app's loop
    last,        \* history: the last terminal event read and the state it met
    store,       \* the rows of the cache table search_results, by query
    now,         \* the reading of the system clock, in seconds
    has_cache,   \* whether AnnaScraper::new obtained a SearchCache
    call,        \* the call of the search client in progress, or the last one
    parser,      \* a document handed to the HTML parsers, and what they return
    download,    \* the call of Downloader::download in progress, or the last
    disk,        \* the download directory: whether it exists, and its files
    cli,         \* the run of run_non_interactive in progress, or the last
    sweep        \* the call of cleanup_partial_downloads, and the last query

uiVars == <<app, command_rx, tasks, pc, last>>

clientVars == <<store, now, has_cache, call>>

engineVars == <<parser, download, disk, cli, sweep>>

vars ==
    <<app, command_rx, tasks, pc, last, store, now, has_cache, call, parser,
      download, disk, cli, sweep>>

----------------------------------------------------------------------------
(* Bounds of the model *)

MaxQuery == 1
MaxBooks == 3
MaxLinks == 2
MaxHelpScroll == 1
MaxResults == 2
MaxDrift == 1
MaxAnchors == 3
MaxChunks == 2
MaxChunkLen == 2
MaxTotal == 2

(* Constants of the program *)

VisibleRows == 10
TitleChars == 50

----------------------------------------------------------------------------
(* Values *)

Min(a, b) == IF a < b THEN a ELSE b

SatSub_unsaturated(a, b) == a - b

SatSub(a, b) == IF a > b THEN a - b ELSE 0

Take(s, n) == SubSeq(s, 1, Min(n, Len(s)))

Pop(s) == IF s = <<>> THEN s ELSE SubSeq(s, 1, Len(s) - 1)

UnwrapOr(opt, d) == IF opt = {} THEN d ELSE CHOOSE x \in opt : TRUE

InRange(s, i) == i < Len(s)

At(s, i) == s[i + 1]

Chars == {"a", "c", "j", "k"}

PlainCodes == {"Enter", "Backspace", "Esc", "F1", "Down", "Up", "Tab"}

Key(code, ch, ctrl) == [code |-> code, ch |-> ch, ctrl |-> ctrl]

Keys ==
    {Key(c, "", FALSE) : c \in PlainCodes}
        \cup {Key("Char", ch, FALSE) : ch \in Chars}
        \cup {Key("Char", "c", TRUE)}

CtrlC == Key("Char", "c", TRUE)

NoKey == Key("None", "", FALSE)

AppModeTags ==
    {"Search", "Results", "DownloadSelection", "Downloading", "Error", "Help"}

NoMsg == [text |-> "", detail |-> ""]

Msg(text, detail) == [text |-> text, detail |-> detail]

AppMode(tag) == [tag |-> tag, msg |-> NoMsg]

ErrorMode(m) == [tag |-> "Error", msg |-> m]

NoFile == [stem |-> <<>>, author |-> "", ext |-> ""]

Status(text, file) == [text |-> text, file |-> file]

Book(i) ==
    [title    |-> <<"B", "o", "o", "k", i>>,
     author   |-> IF i = 1 THEN {} ELSE {"Author"},
     year     |-> IF i = 1 THEN {} ELSE {"2020"},
     language |-> {},
     format   |-> IF i = 2 THEN {"PDF"} ELSE {},
     size     |-> {},
     url      |-> <<"https:", "/", "/", "annas", "-archive.org", "/", "md5", "/",
                   ToString(i)>>]

DownloadLink(i) ==
    [text   |-> IF i = 1 THEN <<"LibGen", " mirror">>
                ELSE <<"Slow partner server">>,
     url    |-> <<"http:", "/", "/", "libgen", ".rs", "/", "get.php", "?",
                  "md5=", ToString(i)>>,
     source |-> "LibGen"]

FirstBooks(n) == [i \in 1..n |-> Book(i)]

FirstLinks(n) == [i \in 1..n |-> DownloadLink(i)]

Errors == {"transport", "http"}

AppCommand(kind, str, err, file) ==
    [kind |-> kind, str |-> str, err |-> err, file |-> file]

ShowError(m) == AppCommand("ShowError", <<>>, m, NoFile)

CompleteDownload(file) == AppCommand("CompleteDownload", <<>>, NoMsg, file)

Task(kind, arg, file) == [kind |-> kind, arg |-> arg, file |-> file]

Ret(a, flow, spawn) == [app |-> a, flow |-> flow, spawn |-> spawn]

----------------------------------------------------------------------------
(* ui::App: construction and the asynchronous operations *)

AppNew ==
    [mode                |-> AppMode("Search"),
     query               |-> <<>>,
     books               |-> <<>>,
     selected_book_index |-> 0,
     download_links      |-> <<>>,
     download_link_index |-> 0,
     error_message       |-> NoMsg,
     results_scroll      |-> 0,
     help_scroll         |-> 0,
     downloading_message |-> Status("", NoFile)]

is_ctrl_c_inverted(key) == key.code = "Char" /\ key.ch = "c" /\ ~key.ctrl

is_ctrl_c(key) == key.code = "Char" /\ key.ch = "c" /\ key.ctrl

perform_search_in_place(a) ==
    Ret(a, "Continue", {Task("search", a.query, NoFile)})

perform_search(a) ==
    Ret([a EXCEPT !.mode = AppMode("Downloading"),
                  !.downloading_message = Status("Searching...", NoFile)],
        "Continue",
        {Task("search", a.query, NoFile)})

selected_book(a) == At(a.books, a.selected_book_index)

fetch_download_links_first(a) ==
    IF a.books = <<>>
    THEN Ret(a, "Panic", {})
    ELSE Ret([a EXCEPT !.mode = AppMode("Downloading"),
                       !.downloading_message =
                           Status("Fetching download links...", NoFile)],
             "Continue",
             {Task("links", At(a.books, 0).url, NoFile)})

fetch_download_links(a) ==
    IF ~InRange(a.books, a.selected_book_index)
    THEN Ret(a, "Panic", {})
    ELSE Ret([a EXCEPT !.mode = AppMode("Downloading"),
                       !.downloading_message =
                           Status("Fetching download links...", NoFile)],
             "Continue",
             {Task("links", selected_book(a).url, NoFile)})

download_filename(book) ==
    [stem   |-> Take(book.title, TitleChars),
     author |-> UnwrapOr(book.author, "Unknown"),
     ext    |-> UnwrapOr(book.format, "unknown")]

perform_download(a) ==
    IF ~InRange(a.download_links, a.download_link_index)
           \/ ~InRange(a.books, a.selected_book_index)
    THEN Ret(a, "Panic", {})
    ELSE LET link     == At(a.download_links, a.download_link_index)
             filename == download_filename(selected_book(a))
         IN  Ret([a EXCEPT !.mode = AppMode("Downloading"),
                           !.downloading_message =
                               Status("Downloading: ", filename)],
                 "Continue",
                 {Task("download", link.url, filename)})

----------------------------------------------------------------------------
(* ui::App: the key handlers *)

can_move_down_unclamped(index, len) == index < len

can_move_down(index, len) == index < SatSub(len, 1)

search_enter_unguarded(a) == perform_search(a)

search_enter(a) ==
    IF a.query # <<>> THEN perform_search(a) ELSE Ret(a, "Continue", {})

results_enter_unguarded(a) == fetch_download_links(a)

results_enter(a) ==
    IF a.books # <<>> THEN fetch_download_links(a) ELSE Ret(a, "Continue", {})

selection_enter_unguarded(a) == perform_download(a)

selection_enter(a) ==
    IF a.download_links # <<>>
    THEN perform_download(a)
    ELSE Ret(a, "Continue", {})

scroll_down(index, scroll) ==
    IF index >= scroll + VisibleRows THEN scroll + 1 ELSE scroll

handle_search_input(a, key) ==
    IF is_ctrl_c(key) THEN Ret(a, "Exit", {})
    ELSE IF key.code = "Enter" THEN search_enter(a)
    ELSE IF key.code = "Char"
    THEN Ret([a EXCEPT !.query = Append(@, key.ch)], "Continue", {})
    ELSE IF key.code = "Backspace"
    THEN Ret([a EXCEPT !.query = Pop(@)], "Continue", {})
    ELSE IF key.code = "Esc" THEN Ret(a, "Exit", {})
    ELSE IF key.code = "F1"
    THEN Ret([a EXCEPT !.mode = AppMode("Help")], "Continue", {})
    ELSE Ret(a, "Continue", {})

results_escape_keeps_scroll(a) ==
    Ret([a EXCEPT !.mode = AppMode("Search"),
                  !.query = <<>>,
                  !.books = <<>>,
                  !.selected_book_index = 0],
        "Continue", {})

(* The Esc arm of handle_results_navigation *)
results_escape(a) ==
    Ret([a EXCEPT !.mode = AppMode("Search"),
                  !.query = <<>>,
                  !.books = <<>>,
                  !.selected_book_index = 0,
                  !.results_scroll = 0],
        "Continue", {})

handle_results_navigation(a, key) ==
    IF key.code = "Down" \/ (key.code = "Char" /\ key.ch = "j")
    THEN IF can_move_down(a.selected_book_index, Len(a.books))
         THEN LET index == a.selected_book_index + 1
              IN  Ret([a EXCEPT !.selected_book_index = index,
                                !.results_scroll = scroll_down(index, @)],
                      "Continue", {})
         ELSE Ret(a, "Continue", {})
    ELSE IF key.code = "Up" \/ (key.code = "Char" /\ key.ch = "k")
    THEN IF a.selected_book_index > 0
         THEN LET index == SatSub(a.selected_book_index, 1)
              IN  Ret([a EXCEPT !.selected_book_index = index,
                                !.results_scroll =
                                    IF index < @ THEN index ELSE @],
                      "Continue", {})
         ELSE Ret(a, "Continue", {})
    ELSE IF key.code = "Enter" THEN results_enter(a)
    ELSE IF key.code = "Esc" THEN results_escape(a)
    ELSE IF is_ctrl_c(key) THEN Ret(a, "Exit", {})
    ELSE IF key.code = "F1"
    THEN Ret([a EXCEPT !.mode = AppMode("Help")], "Continue", {})
    ELSE Ret(a, "Continue", {})

selection_escape_to_search(a) ==
    Ret([a EXCEPT !.mode = AppMode("Search"),
                  !.query = <<>>,
                  !.books = <<>>,
                  !.selected_book_index = 0,
                  !.results_scroll = 0,
                  !.download_links = <<>>,
                  !.download_link_index = 0],
        "Continue", {})

(* The Esc arm of handle_download_selection *)
selection_escape(a) ==
    Ret([a EXCEPT !.mode = AppMode("Results"),
                  !.download_links = <<>>,
                  !.download_link_index = 0],
        "Continue", {})

handle_download_selection(a, key) ==
    IF key.code = "Down" \/ (key.code = "Char" /\ key.ch = "j")
    THEN IF can_move_down(a.download_link_index, Len(a.download_links))
         THEN Ret([a EXCEPT !.download_link_index = @ + 1], "Continue", {})
         ELSE Ret(a, "Continue", {})
    ELSE IF key.code = "Up" \/ (key.code = "Char" /\ key.ch = "k")
    THEN Ret([a EXCEPT !.download_link_index = SatSub(@, 1)], "Continue", {})
    ELSE IF key.code = "Enter" THEN selection_enter(a)
    ELSE IF key.code = "Esc" THEN selection_escape(a)
    ELSE IF is_ctrl_c(key) THEN Ret(a, "Exit", {})
    ELSE IF key.code = "F1"
    THEN Ret([a EXCEPT !.mode = AppMode("Help")], "Continue", {})
    ELSE Ret(a, "Continue", {})

handle_error_keeps_message(a, key) ==
    IF key.code = "Esc" \/ key.code = "Enter"
    THEN Ret([a EXCEPT !.mode = AppMode("Search")], "Continue", {})
    ELSE IF is_ctrl_c(key) THEN Ret(a, "Exit", {})
    ELSE Ret(a, "Continue", {})

handle_error(a, key) ==
    IF key.code = "Esc" \/ key.code = "Enter"
    THEN Ret([a EXCEPT !.mode = AppMode("Search"),
                       !.error_message = NoMsg],
             "Continue", {})
    ELSE IF is_ctrl_c(key) THEN Ret(a, "Exit", {})
    ELSE Ret(a, "Continue", {})

handle_downloading(a, key) ==
    IF is_ctrl_c(key) THEN Ret(a, "Exit", {}) ELSE Ret(a, "Continue", {})

handle_help_to_fresh_search(a, key) ==
    IF key.code = "Esc" \/ key.code = "F1"
    THEN Ret([a EXCEPT !.mode = AppMode("Search"),
                       !.query = <<>>,
                       !.results_scroll = 0], "Continue", {})
    ELSE IF key.code = "Down" \/ (key.code = "Char" /\ key.ch = "j")
    THEN Ret([a EXCEPT !.help_scroll = @ + 1], "Continue", {})
    ELSE IF key.code = "Up" \/ (key.code = "Char" /\ key.ch = "k")
    THEN Ret([a EXCEPT !.help_scroll = SatSub(@, 1)], "Continue", {})
    ELSE IF is_ctrl_c(key) THEN Ret(a, "Exit", {})
    ELSE Ret(a, "Continue", {})

handle_help(a, key) ==
    IF key.code = "Esc" \/ key.code = "F1"
    THEN Ret([a EXCEPT !.mode = AppMode("Search")], "Continue", {})
    ELSE IF key.code = "Down" \/ (key.code = "Char" /\ key.ch = "j")
    THEN Ret([a EXCEPT !.help_scroll = @ + 1], "Continue", {})
    ELSE IF key.code = "Up" \/ (key.code = "Char" /\ key.ch = "k")
    THEN Ret([a EXCEPT !.help_scroll = SatSub(@, 1)], "Continue", {})
    ELSE IF is_ctrl_c(key) THEN Ret(a, "Exit", {})
    ELSE Ret(a, "Continue", {})

handle_keypress(a, key) ==
    CASE a.mode.tag = "Search"            -> handle_search_input(a, key)
      [] a.mode.tag = "Results"           -> handle_results_navigation(a, key)
      [] a.mode.tag = "DownloadSelection" -> handle_download_selection(a, key)
      [] a.mode.tag = "Error"             -> handle_error(a, key)
      [] a.mode.tag = "Downloading"       -> handle_downloading(a, key)
      [] a.mode.tag = "Help"              -> handle_help(a, key)

----------------------------------------------------------------------------
(* The background tasks spawned by perform_search, fetch_download_links   *)
(* and perform_download.  A task runs one call of the search client or of *)
(* the transfer engine; the call's result is one of TaskResults, and the  *)
(* task sends at most one message on command_tx before it ends.           *)

TaskResults == {"new_err", "ok_empty", "ok_nonempty", "err"}

NoSend == <<>>

search_task_send(r, e) ==
    CASE r = "new_err"     -> <<ShowError(Msg("Failed to create scraper: ", e))>>
      [] r = "ok_empty"    -> <<ShowError(Msg("No results found", ""))>>
      [] r = "ok_nonempty" -> NoSend
      [] r = "err"         -> <<ShowError(Msg("Search error: ", e))>>

links_task_send(r, e) ==
    CASE r = "new_err"     -> <<ShowError(Msg("Failed to create scraper: ", e))>>
      [] r = "ok_empty"    -> <<ShowError(Msg("No download links found", ""))>>
      [] r = "ok_nonempty" -> NoSend
      [] r = "err"         -> <<ShowError(Msg("Error fetching links: ", e))>>

download_task_send(t, r, e) ==
    CASE r = "new_err" -> <<ShowError(Msg("Failed to create downloader: ", e))>>
      [] r = "err"     -> <<ShowError(Msg("Download failed: ", e))>>
      [] OTHER         -> <<CompleteDownload(t.file)>>

task_send_twice(t, r, e) ==
    LET sent == CASE t.kind = "search"   -> search_task_send(r, e)
                  [] t.kind = "links"    -> links_task_send(r, e)
                  [] t.kind = "download" -> download_task_send(t, r, e)
    IN  sent \o sent

task_send(t, r, e) ==
    CASE t.kind = "search"   -> search_task_send(r, e)
      [] t.kind = "links"    -> links_task_send(r, e)
      [] t.kind = "download" -> download_task_send(t, r, e)

----------------------------------------------------------------------------
(* run_app: the arm of the loop that applies one received command.  The   *)
(* Search, FetchDownloadLinks and Download arms run the call in the loop  *)
(* itself; r and e are the call's result.                                 *)

apply_error(a, m) ==
    [a EXCEPT !.error_message = m, !.mode = ErrorMode(m)]

apply_command(a, c, r, e) ==
    CASE c.kind = "Search" ->
            IF r = "new_err" THEN Ret(a, "Err", {})
            ELSE IF r = "err"
            THEN Ret(apply_error(a, Msg("Search error: ", e)), "Continue", {})
            ELSE Ret([a EXCEPT !.books = IF r = "ok_empty" THEN <<>>
                                         ELSE FirstBooks(MaxBooks),
                               !.mode = AppMode("Results"),
                               !.selected_book_index = 0],
                     "Continue", {})
      [] c.kind = "FetchDownloadLinks" ->
            IF r = "new_err" THEN Ret(a, "Err", {})
            ELSE IF r = "err"
            THEN Ret(apply_error(a, Msg("Error fetching links: ", e)),
                     "Continue", {})
            ELSE Ret([a EXCEPT !.download_links = IF r = "ok_empty" THEN <<>>
                                                  ELSE FirstLinks(MaxLinks),
                               !.mode = AppMode("DownloadSelection"),
                               !.download_link_index = 0],
                     "Continue", {})
      [] c.kind = "Download" ->
            IF r = "new_err" THEN Ret(a, "Err", {})
            ELSE IF r = "err"
            THEN Ret(apply_error(a, Msg("Download failed: ", e)),
                     "Continue", {})
            ELSE Ret([a EXCEPT !.downloading_message =
                                   Status("Download complete: ", c.file),
                               !.mode = AppMode("Search"),
                               !.query = <<>>,
                               !.books = <<>>,
                               !.download_links = <<>>],
                     "Continue", {})
      [] c.kind = "ShowError" ->
            Ret(apply_error(a, c.err), "Continue", {})
      [] c.kind = "CompleteDownload" ->
            Ret([a EXCEPT !.downloading_message =
                              Status("Downloaded to: ", c.file),
                          !.mode = AppMode("Search")],
                "Continue", {})

----------------------------------------------------------------------------
(* SearchCache (cache.rs) and the search client (scraper.rs) *)

Ok(value) == [ok |-> TRUE, value |-> value, error |-> ""]

Err(error) == [ok |-> FALSE, value |-> <<>>, error |-> error]

NoResult == [ok |-> FALSE, value |-> <<>>, error |-> "pending"]

(* A panic of the thread that was computing the result *)
Panicked == [ok |-> FALSE, value |-> <<>>, error |-> "panic"]

TTL == 24 * 60 * 60

Queries == {<<"query ", 1>>, <<"query ", 2>>}

NoRow == {}

JsonOpt(opt) == IF opt = {} THEN <<"null">> ELSE <<"string", UnwrapOr(opt, "")>>

FromJsonOpt(j) == IF j[1] = "null" THEN {} ELSE {j[2]}

OptFields == {"author", "year", "language", "format", "size"}

to_json(book) ==
    [f \in DOMAIN book |->
        IF f \in OptFields THEN JsonOpt(book[f]) ELSE <<"string", book[f]>>]

from_json(obj) ==
    [f \in DOMAIN obj |->
        IF f \in OptFields THEN FromJsonOpt(obj[f]) ELSE obj[f][2]]

serialize(books) == [i \in DOMAIN books |-> to_json(books[i])]

deserialize(json) == [i \in DOMAIN json |-> from_json(json[i])]

(* A row of search_results; written is history, the books given to set *)
Row(json, timestamp, written) ==
    [results |-> json, timestamp |-> timestamp, written |-> written]

(* A results text that serde_json rejects: an object without its title *)
Corrupt == <<[url |-> <<"string", <<"x">>>>]>>

(* serde_json::from_str::<Vec<Book>> succeeds: title and url are required *)
parses(json) == \A i \in DOMAIN json : {"title", "url"} \subseteq DOMAIN json[i]

expired_inclusive(clock, timestamp) == clock - timestamp >= TTL

(* now - timestamp > 24 * 60 * 60 on u64, where the subtraction does not   *)
(* overflow, or wraps: the wrapped difference 2^64 - (timestamp - clock)   *)
(* is above TTL for every timestamp less than 2^64 - TTL ahead             *)
expired(clock, timestamp) ==
    IF clock < timestamp THEN TRUE ELSE clock - timestamp > TTL

(* SearchCache::get with a database that opens: Ok({}) is Ok(None) and     *)
(* Ok({books}) is Ok(Some(books)).  now - timestamp on u64 overflows when  *)
(* the row is stamped after the clock reading: with overflow checks (the   *)
(* debug profile) it panics, without them (the release profile) it wraps   *)
cache_get(rows, clock, query, overflow_checks) ==
    IF rows[query] = NoRow THEN Ok({})
    ELSE LET row == CHOOSE r \in rows[query] : TRUE
         IN  IF clock < row.timestamp /\ overflow_checks THEN Panicked
             ELSE IF expired(clock, row.timestamp) THEN Ok({})
             ELSE IF ~parses(row.results)
             THEN Err("Failed to deserialize cached results")
             ELSE Ok({deserialize(row.results)})

cache_set_every_query(rows, clock, query, books) ==
    [q \in DOMAIN rows |-> {Row(serialize(books), clock, books)}]

(* SearchCache::set: INSERT OR REPLACE *)
cache_set(rows, clock, query, books) ==
    [rows EXCEPT ![query] = {Row(serialize(books), clock, books)}]

enough_strict(books, max_results) == Len(books) > max_results

enough(books, max_results) == Len(books) >= max_results

search_cached_err_is_empty(cached, got, max_results) ==
    IF ~cached THEN {}
    ELSE IF ~got.ok THEN {<<>>}
    ELSE IF got.value = {} THEN {}
    ELSE LET books == CHOOSE b \in got.value : TRUE
         IN  IF enough(books, max_results)
             THEN {Take(books, max_results)}
             ELSE {}

(* The lookup that opens AnnaScraper::search, got being what cache.get    *)
(* returned: {} when the call goes on to the network, otherwise the books  *)
(* to return                                                               *)
search_cached(cached, got, max_results) ==
    IF ~cached THEN {}
    ELSE IF ~got.ok \/ got.value = {} THEN {}
    ELSE LET books == CHOOSE b \in got.value : TRUE
         IN  IF enough(books, max_results)
             THEN {Take(books, max_results)}
             ELSE {}

(* Html::parse_document never fails; the document is represented by its   *)
(* anchors in document order.  An anchor carries its classes, its href, its *)
(* trimmed text and its ancestors, the nearest first; an ancestor carries  *)
(* its number in document order, its id, its classes, its data-section     *)
(* attribute and, as its text, what extract_author .. extract_size find in *)
(* it.  Elements without an anchor below them are not represented.         *)

contains(s, w) == \E i \in DOMAIN s : s[i] = w

NoText ==
    [author |-> {}, year |-> {}, language |-> {}, format |-> {}, size |-> {}]

Node(n, id, classes, data_section, text) ==
    [node |-> n, id |-> id, classes |-> classes,
     data_section |-> data_section, text |-> text]

BookSelectors ==
    <<"a.js-vim-focus.custom-a", "a[href*='md5']", ".book-title a",
      "a[href*='book']">>

SectionSelectors ==
    <<"#external-downloads", ".external-downloads",
      "[data-section='downloads']">>

SectionLinkSelectors ==
    <<"a[href*='libgen']", "a[href*='download']", "a.download-link",
      "a[href*='mirror']">>

LinkSelectors ==
    <<"a[href*='libgen']", "a[href*='download']", "a[href*='mirror']",
      "a[href*='get.php']", ".download-link">>

(* Whether an anchor matches a CSS selector of the program *)
matches(e, selector) ==
    LET href(w) == \E h \in e.href : contains(h, w)
    IN  CASE selector = "a.js-vim-focus.custom-a" ->
                 {<<"js-vim-focus">>, <<"custom-a">>} \subseteq e.classes
          [] selector = "a[href*='md5']"     -> href("md5")
          [] selector = ".book-title a" ->
                 \E k \in DOMAIN e.ancestors :
                    <<"book-title">> \in e.ancestors[k].classes
          [] selector = "a[href*='book']"    -> href("book")
          [] selector = "a[href*='libgen']"  -> href("libgen")
          [] selector = "a[href*='download']" -> href("download")
          [] selector = "a[href*='mirror']"  -> href("mirror")
          [] selector = "a[href*='get.php']" -> href("get.php")
          [] selector \in {"a.download-link", ".download-link"} ->
                 <<"download-link">> \in e.classes

(* Whether an element that is not an anchor matches a section selector *)
section_matches(n, selector) ==
    CASE selector = "#external-downloads" -> n.id = "external-downloads"
      [] selector = ".external-downloads" ->
             <<"external-downloads">> \in n.classes
      [] selector = "[data-section='downloads']" ->
             n.data_section = "downloads"

select_any(anchors, selector) == anchors

(* select: the matching anchors, in document order *)
select(anchors, selector) ==
    SelectSeq(anchors, LAMBDA e : matches(e, selector))

ContainerLevels == 5

find_book_container(element) ==
    LET signal(c) == \/ c = <<"book-item">>
                     \/ c = <<"flex">>
                     \/ contains(c, "border")
                     \/ contains(c, "pt-3")
        levels == {k \in 1..Min(Len(element.ancestors), ContainerLevels) :
                      \E c \in element.ancestors[k].classes : signal(c)}
    IN  IF levels = {} THEN {}
        ELSE {element.ancestors[CHOOSE k \in levels :
                                    \A l \in levels : k <= l]}

BaseUrl == <<"https:", "/", "/", "annas", "-archive.org">>

(* extract_book_info: {} is None *)
extract_book_info(element) ==
    IF element.href = {} THEN {}
    ELSE IF element.text = <<>> THEN {}
    ELSE LET found == find_book_container(element)
         IN  IF found = {} THEN {}
             ELSE LET container == CHOOSE c \in found : TRUE
                  IN  {[title    |-> element.text,
                        author   |-> container.text.author,
                        year     |-> container.text.year,
                        language |-> container.text.language,
                        format   |-> container.text.format,
                        size     |-> container.text.size,
                        url      |-> BaseUrl
                                         \o UnwrapOr(element.href, <<>>)]}

(* The loop over the matched elements: push what extract_book_info gives *)
RECURSIVE extracted(_)
extracted(elements) ==
    IF elements = <<>> THEN <<>>
    ELSE LET book == extract_book_info(Head(elements))
             rest == extracted(Tail(elements))
         IN  IF book = {} THEN rest
             ELSE <<CHOOSE b \in book : TRUE>> \o rest

RECURSIVE select_all(_, _)
select_all(anchors, selectors) ==
    IF selectors = <<>> THEN <<>>
    ELSE select(anchors, Head(selectors))
             \o select_all(anchors, Tail(selectors))

RECURSIVE select_first(_, _, _)
select_first(document, selectors, max_results) ==
    IF selectors = <<>> THEN <<>>
    ELSE LET elements ==
                 Take(select(document, Head(selectors)), max_results * 2)
         IN  IF elements # <<>> THEN Take(elements, max_results)
             ELSE select_first(document, Tail(selectors), max_results)

parse_search_results_union(html, max_results) ==
    extracted(Take(select_all(html, BookSelectors), max_results))

parse_search_results(html, max_results) ==
    extracted(select_first(html, BookSelectors, max_results))

detect_source_annas_first(href) ==
    IF contains(href, "annas") THEN "Anna's Archive"
    ELSE IF contains(href, "libgen") THEN "LibGen"
    ELSE IF contains(href, "mirror") THEN "Mirror"
    ELSE "Unknown"

detect_source(href) ==
    IF contains(href, "libgen") THEN "LibGen"
    ELSE IF contains(href, "annas") THEN "Anna's Archive"
    ELSE IF contains(href, "mirror") THEN "Mirror"
    ELSE "Unknown"

extract_download_link(element) ==
    [text   |-> element.text,
     url    |-> UnwrapOr(element.href, <<>>),
     source |-> detect_source(UnwrapOr(element.href, <<>>))]

(* The links of the elements that have an href, a URL already in seen    *)
(* skipped: seen_urls.insert                                              *)
RECURSIVE unique_links(_, _)
unique_links(elements, seen) ==
    IF elements = <<>> THEN <<>>
    ELSE LET link == extract_download_link(Head(elements))
         IN  IF Head(elements).href = {} \/ link.url \in seen
             THEN unique_links(Tail(elements), seen)
             ELSE <<link>> \o unique_links(Tail(elements),
                                           seen \cup {link.url})

(* document.select(selector).next(): the number of the first matching    *)
(* element, as a set with at most one member                              *)
first_section(document, selector) ==
    LET hits == UNION {{document[k].ancestors[j].node :
                            j \in {i \in DOMAIN document[k].ancestors :
                                section_matches(document[k].ancestors[i],
                                                selector)}} :
                        k \in DOMAIN document}
    IN  IF hits = {} THEN {}
        ELSE {CHOOSE n \in hits : \A m \in hits : n <= m}

(* The anchors below the element numbered n *)
descendants(document, n) ==
    SelectSeq(document, LAMBDA e :
        \E j \in DOMAIN e.ancestors : e.ancestors[j].node = n)

extract_links_from_section(section) ==
    unique_links(select_all(section, SectionLinkSelectors), {})

RECURSIVE section_links(_, _)
section_links(document, selectors) ==
    IF selectors = <<>> THEN <<>>
    ELSE LET found == first_section(document, Head(selectors))
             rest  == section_links(document, Tail(selectors))
         IN  IF found = {} THEN rest
             ELSE extract_links_from_section(
                      descendants(document, CHOOSE n \in found : TRUE))
                      \o rest

parse_download_links(html) ==
    LET links == section_links(html, SectionSelectors)
    IN  IF links = <<>>
        THEN unique_links(select_all(html, LinkSelectors), {})
        ELSE links

NoPage == <<>>

(* Anchor i of a search page.  kind says which selectors it matches,      *)
(* whether it has an href and a title; depth is the level of the nearest  *)
(* ancestor with a container class, 0 when there is none.  Its container  *)
(* holds the metadata of Book(i).                                         *)
SearchAnchor(i, kind, depth) ==
    [classes |-> IF kind \in {"focus", "nohref"}
                 THEN {<<"js-vim-focus">>, <<"custom-a">>} ELSE {},
     href |-> CASE kind \in {"focus", "md5", "untitled"} ->
                       {<<"/", "md5", "/", ToString(i)>>}
                [] kind = "book"   -> {<<"/", "book", "/", ToString(i)>>}
                [] kind = "nohref" -> {}
                [] OTHER           -> {<<"/", "item", "/", ToString(i)>>},
     text |-> IF kind = "untitled" THEN <<>> ELSE Book(i).title,
     ancestors |->
        [k \in 1..(IF depth = 0 THEN 1 ELSE depth) |->
            Node(10 * i + k, "",
                 (IF k # depth THEN {}
                  ELSE CASE depth = 1 -> {<<"flex">>}
                         [] depth = ContainerLevels -> {<<"border", "-b">>}
                         [] OTHER -> {<<"book-item">>})
                     \cup (IF k = 1 /\ kind = "titled"
                           THEN {<<"book-title">>} ELSE {}),
                 "",
                 [f \in OptFields |-> Book(i)[f]])]]

(* Anchor i of a book page.  kind is <<href, u, place>>: what its href    *)
(* contains, the number u that makes its URL, and the section it is in;   *)
(* first is the number of that section in document order.                 *)
LinkAnchor(i, kind, first) ==
    [classes |-> IF kind[1] \in {"libgen", "class", "nohref"}
                 THEN {<<"download-link">>} ELSE {},
     href |-> CASE kind[1] = "libgen" ->
                       {<<"http:", "/", "/", "libgen", ".rs", "/", "get.php",
                          "?", "md5=", ToString(kind[2])>>}
                [] kind[1] = "download" ->
                       {<<"https:", "/", "/", "annas", "-archive.org", "/",
                          "slow_", "download", "/", ToString(kind[2])>>}
                [] kind[1] = "mirror" ->
                       {<<"http:", "/", "/", "example.com", "/", "mirror", "/",
                          ToString(kind[2])>>}
                [] kind[1] = "all" ->
                       {<<"https:", "/", "/", "annas", "-archive.org", "/",
                          "libgen", "/", "mirror", "/", ToString(kind[2])>>}
                [] kind[1] = "annasmirror" ->
                       {<<"https:", "/", "/", "annas", "-archive.org", "/",
                          "mirror", "/", ToString(kind[2])>>}
                [] kind[1] = "class"  -> {<<"/", "file", "/", ToString(kind[2])>>}
                [] kind[1] = "nohref" -> {}
                [] OTHER              -> {<<"/", "about">>},
     text |-> IF kind[2] = 1 THEN <<"LibGen", " mirror">>
              ELSE <<"Slow partner server">>,
     ancestors |->
        IF kind[3] = "loose" THEN <<Node(0, "", {}, "", NoText)>>
        ELSE <<Node(first,
                    IF kind[3] \in {"id", "both"}
                    THEN "external-downloads" ELSE "",
                    IF kind[3] \in {"class", "both"}
                    THEN {<<"external-downloads">>} ELSE {},
                    IF kind[3] = "data" THEN "downloads" ELSE "",
                    NoText),
               Node(0, "", {}, "", NoText)>>]

(* The search pages served: n anchors, the newest book first, the anchor  *)
(* of book 1 with an empty title when untitled                            *)
SearchPages ==
    {[k \in 1..nu[1] |->
         SearchAnchor(nu[1] + 1 - k,
                      IF nu[1] + 1 - k = 1 /\ nu[2] THEN "untitled"
                      ELSE "focus", 1)] :
        nu \in (0..MaxResults) \X BOOLEAN}

(* The book pages served: n links in the external downloads section *)
BookPages ==
    {[k \in 1..n |-> LinkAnchor(k, <<"libgen", k, "id">>, 1)] :
        n \in 0..MaxLinks}

Response(kind, html) == [kind |-> kind, html |-> html]

NoResponse == Response("none", NoPage)

Failures == {"transport", "status", "body"}

Responses(pages) ==
    {Response(k, NoPage) : k \in Failures}
        \cup {Response("ok", h) : h \in pages}

fetch_failed_transport_only(resp) == resp.kind \in {"transport", "body"}

fetch_failed(resp) == resp.kind # "ok"

fetch_error(resp) ==
    CASE resp.kind = "transport" -> "Failed to fetch URL"
      [] resp.kind = "status"    -> "HTTP error: "
      [] resp.kind = "body"      -> "Failed to read response body"

Call(op, arg, max_results) ==
    [op          |-> op,
     arg         |-> arg,
     max_results |-> max_results,
     at          |-> "fetch",
     requests    |-> 0,
     resp        |-> NoResponse,
     parsed      |-> 0,
     sets        |-> 0,
     stored      |-> 0,
     ret         |-> NoResult]

NoCall == [Call("none", <<"", 0>>, 0) EXCEPT !.at = "done"]

----------------------------------------------------------------------------
(* The download engine (downloader.rs) *)

(* urlencoding::decode: {} is Err, when the decoded bytes are not UTF-8 *)
decode(s) ==
    IF contains(s, "%FF") THEN {}
    ELSE {[i \in DOMAIN s |-> CASE s[i] = "%20" -> " "
                                [] s[i] = "%2B" -> "+"
                                [] OTHER        -> s[i]]}

(* str::trim_matches(c); str::trim is trim_matches(" ") *)
trim_matches(s, c) ==
    LET keep == {i \in DOMAIN s : s[i] # c}
    IN  IF keep = {} THEN <<>>
        ELSE SubSeq(s, CHOOSE i \in keep : \A j \in keep : i <= j,
                       CHOOSE i \in keep : \A j \in keep : i >= j)

extract_filename_from_url(url) ==
    LET slashes == {i \in DOMAIN url : url[i] = "/"}
        segment == IF slashes = {} THEN url
                ELSE SubSeq(url,
                            (CHOOSE i \in slashes :
                                \A j \in slashes : i >= j) + 1,
                            Len(url))
    IN  IF segment = <<>> \/ contains(segment, "?") THEN {}
        ELSE {UnwrapOr(decode(segment), <<>>)}

(* parse_content_disposition, applied to the parts between the ';' *)
RECURSIVE parse_content_disposition(_)
parse_content_disposition(disposition) ==
    IF disposition = <<>> THEN {}
    ELSE LET part == trim_matches(Head(disposition), " ")
         IN  IF part # <<>> /\ part[1] = "filename="
             THEN {UnwrapOr(decode(trim_matches(Tail(part), "\"")), <<>>)}
             ELSE IF part # <<>> /\ part[1] = "filename*="
             THEN IF Len(part) >= 2 /\ part[2] = "UTF-8''"
                  THEN {UnwrapOr(decode(SubSeq(part, 3, Len(part))), <<>>)}
                  ELSE {}
             ELSE parse_content_disposition(Tail(disposition))

(* A response to the GET of a download.  content_length and disposition  *)
(* are Options; a disposition header has its text, split at ';', and     *)
(* whether to_str accepts it                                             *)
DownloadResponse(status, content_length, disposition) ==
    [status |-> status, content_length |-> content_length,
     disposition |-> disposition]

determine_filename(url, provided_name, response, clock) ==
    IF provided_name # {} THEN CHOOSE name \in provided_name : TRUE
    ELSE LET from_url == extract_filename_from_url(url)
             from_header ==
                 UNION {IF h.ascii THEN parse_content_disposition(h.parts)
                        ELSE {} : h \in response.disposition}
         IN  IF from_url # {} THEN CHOOSE name \in from_url : TRUE
             ELSE IF from_header # {} THEN CHOOSE name \in from_header : TRUE
             ELSE <<"downloaded_file_", ToString(clock), ".tmp">>

total_size_or_zero(response) == {UnwrapOr(response.content_length, 0)}

(* response.content_length() *)
total_size(response) == response.content_length

progress_uncapped(downloaded, len, total) == downloaded + len

(* The position reported after a chunk of len bytes *)
progress(downloaded, len, total) == Min(downloaded + len, total)

(* A call download(url, filename) on a disk in state before *)
DownloadCall(url, filename, before) ==
    [at         |-> "send",
     url        |-> url,
     provided   |-> filename,
     resp       |-> DownloadResponse("none", {}, {}),
     total_size |-> 0,
     filename   |-> <<>>,
     downloaded |-> 0,
     chunks     |-> <<>>,
     before     |-> before,
     ret        |-> NoResult]

Disk(dir, files) == [dir |-> dir, files |-> files]

NoDownload ==
    [DownloadCall(<<>>, {}, Disk(FALSE, <<>>)) EXCEPT !.at = "done"]

(* str::ends_with, for a suffix that is one piece *)
ends_with(s, w) == s # <<>> /\ s[Len(s)] = w

(* The paths are format!("{}.crdownload", filename) and                   *)
(* format!("{}.part", filename), joined to the download directory        *)
is_download_in_progress(files, filename) ==
    LET temp_path    == filename \o <<".crdownload">>
        partial_path == filename \o <<".part">>
    IN  temp_path \in DOMAIN files \/ partial_path \in DOMAIN files

is_partial_part_only(filename) == ends_with(filename, ".part")

(* The test that cleanup_partial_downloads makes on the name of an entry *)
is_partial(filename) ==
    ends_with(filename, ".crdownload") \/ ends_with(filename, ".part")

(* A call of cleanup_partial_downloads on a disk in state before: the     *)
(* entries that read_dir has still to yield, and the result; asked and    *)
(* answer are the last call of is_download_in_progress and what it gave   *)
Sweep(at, before) ==
    [at      |-> at,
     pending |-> {},
     before  |-> before,
     ret     |-> NoResult,
     asked   |-> {},
     answer  |-> FALSE]

NoSweep == Sweep("done", Disk(FALSE, <<>>))

----------------------------------------------------------------------------
(* The non-interactive run (main.rs, run_non_interactive) *)

(* str::to_lowercase, on the pieces that occur in link texts *)
to_lowercase(s) ==
    [i \in DOMAIN s |->
        CASE s[i] \in {"LibGen", "LIBGEN", "Libgen"} -> "libgen"
          [] s[i] = " Fast"               -> " fast"
          [] s[i] = "Slow partner server" -> "slow partner server"
          [] s[i] = "Slow "               -> "slow "
          [] s[i] = "Mirror"              -> "mirror"
          [] OTHER                        -> s[i]]

(* DownloadLink::is_reliable *)
is_reliable(link) ==
    link.source = "LibGen" /\ contains(to_lowercase(link.text), "libgen")

auto_select_first(download_links) == {download_links[1]}

(* find(text contains "libgen").or_else(first): {} is None *)
auto_select(download_links) ==
    LET libgen == {i \in DOMAIN download_links :
                      contains(to_lowercase(download_links[i].text),
                               "libgen")}
    IN  IF download_links = <<>> THEN {}
        ELSE IF libgen = {} THEN {download_links[1]}
        ELSE {download_links[CHOOSE i \in libgen :
                                 \A j \in libgen : i <= j]}

(* A run of run_non_interactive: its position, what it has fetched and   *)
(* chosen, and, as history, how many lines it has read from stdin and    *)
(* how many downloads it has started                                     *)
CliRun(at) ==
    [at        |-> at,
     books     |-> <<>>,
     selection |-> 0,
     links     |-> <<>>,
     selected  |-> {},
     reads     |-> 0,
     downloads |-> 0,
     ret       |-> NoResult]

NoCli == CliRun("done")

(* The search client at rest, as the controller's specifications keep it *)
ClientIdle ==
    /\ store = [q \in Queries |-> NoRow]
    /\ now = 0
    /\ has_cache = TRUE
    /\ call = NoCall

(* A document and a limit not yet handed to a parser *)
ParseInput(html, max_results) ==
    [html |-> html, max_results |-> max_results, op |-> "none",
     ret |-> NoResult]

(* The parsers, the download engine and the command line at rest *)
EngineIdle ==
    /\ parser = ParseInput(NoPage, 0)
    /\ download = NoDownload
    /\ disk = Disk(FALSE, <<>>)
    /\ cli = NoCli
    /\ sweep = NoSweep

----------------------------------------------------------------------------
(* The state machine of the controller *)

(* History of the terminal events: the key just read, the mode and the   *)
(* book cursor it met and, when the event before it was Down handled in   *)
(* Results, the book cursor that Down met (otherwise -1).                 *)
Event(key, a, before) ==
    [key       |-> key,
     mode      |-> a.mode.tag,
     sel       |-> a.selected_book_index,
     down_from |-> IF before.key.code = "Down" /\ before.mode = "Results"
                   THEN before.sel ELSE -1]

NoEvent(a) ==
    [key |-> NoKey, mode |-> a.mode.tag, sel |-> a.selected_book_index,
     down_from |-> -1]

Running == pc \in {"recv", "read"}

(* App::new followed by the entry of run_app's loop *)
Init ==
    /\ app = AppNew
    /\ command_rx = <<>>
    /\ tasks = {}
    /\ pc = "recv"
    /\ last = NoEvent(AppNew)
    /\ ClientIdle
    /\ EngineIdle

(* The states in which the unit tests of app.rs start a handler: a fresh  *)
(* App whose public fields were assigned.  Results is entered as the      *)
(* Search arm of run_app leaves it, DownloadSelection as the              *)
(* FetchDownloadLinks arm leaves it after Enter on a selected book.       *)
TestApps ==
    {AppNew}
        \cup {[AppNew EXCEPT !.mode = AppMode("Results"),
                             !.query = <<"a">>,
                             !.books = FirstBooks(n)] : n \in 0..MaxBooks}
        \cup {[AppNew EXCEPT !.mode = AppMode("DownloadSelection"),
                             !.query = <<"a">>,
                             !.books = FirstBooks(nm[1]),
                             !.selected_book_index = nm[1] - 1,
                             !.download_links = FirstLinks(nm[2])]
                  : nm \in (1..MaxBooks) \X (0..MaxLinks)}

InitTest ==
    /\ app \in TestApps
    /\ command_rx = <<>>
    /\ tasks = {}
    /\ pc = "recv"
    /\ last = NoEvent(app)
    /\ ClientIdle
    /\ EngineIdle

Recv_again ==
    /\ pc = "recv"
    /\ IF command_rx = <<>>
       THEN /\ pc' = "read"
            /\ UNCHANGED <<app, command_rx>>
       ELSE \E r \in TaskResults, e \in Errors :
               LET ret == apply_command(app, Head(command_rx), r, e)
               IN  /\ app' = ret.app
                   /\ command_rx' = Tail(command_rx)
                   /\ pc' = IF ret.flow = "Continue" THEN "recv" ELSE "failed"
    /\ UNCHANGED <<tasks, last>>
    /\ UNCHANGED clientVars
    /\ UNCHANGED engineVars

(* run_app, try_recv: at most one command is taken and applied, then the  *)
(* loop goes on to read an event                                          *)
Recv ==
    /\ pc = "recv"
    /\ IF command_rx = <<>>
       THEN /\ pc' = "read"
            /\ UNCHANGED <<app, command_rx>>
       ELSE \E r \in TaskResults, e \in Errors :
               LET ret == apply_command(app, Head(command_rx), r, e)
               IN  /\ app' = ret.app
                   /\ command_rx' = Tail(command_rx)
                   /\ pc' = IF ret.flow = "Continue" THEN "read" ELSE "failed"
    /\ UNCHANGED <<tasks, last>>
    /\ UNCHANGED clientVars
    /\ UNCHANGED engineVars

(* The bounds on the query buffer and on the help scroll offset *)
WithinBounds(key) ==
    /\ (app.mode.tag = "Search" /\ key.code = "Char" /\ ~is_ctrl_c(key))
           => Len(app.query) < MaxQuery
    /\ (app.mode.tag = "Help"
            /\ (key.code = "Down" \/ (key.code = "Char" /\ key.ch = "j")))
           => app.help_scroll < MaxHelpScroll

(* run_app, event::read returned a key event: handle_keypress *)
KeyPress ==
    /\ pc = "read"
    /\ \E key \in Keys :
          /\ WithinBounds(key)
          /\ LET ret == handle_keypress(app, key)
             IN  /\ app' = ret.app
                 /\ tasks' = tasks \cup ret.spawn
                 /\ pc' = CASE ret.flow = "Continue" -> "recv"
                            [] ret.flow = "Exit"     -> "exited"
                            [] ret.flow = "Panic"    -> "panicked"
                 /\ last' = Event(key, app, last)
    /\ UNCHANGED command_rx
    /\ UNCHANGED clientVars
    /\ UNCHANGED engineVars

(* run_app, event::read returned an event that is not a key *)
OtherEvent ==
    /\ pc = "read"
    /\ pc' = "recv"
    /\ last' = NoEvent(app)
    /\ UNCHANGED <<app, command_rx, tasks>>
    /\ UNCHANGED clientVars
    /\ UNCHANGED engineVars

(* A spawned task ends *)
TaskFinish ==
    /\ Running
    /\ \E t \in tasks, r \in TaskResults, e \in Errors :
          /\ tasks' = tasks \ {t}
          /\ command_rx' = command_rx \o task_send(t, r, e)
    /\ UNCHANGED <<app, pc, last>>
    /\ UNCHANGED clientVars
    /\ UNCHANGED engineVars

Next == Recv \/ KeyPress \/ OtherEvent \/ TaskFinish

Spec == Init /\ [][Next]_vars

SpecTest == InitTest /\ [][Next]_vars

(* The same states with a list one book longer than the window shows:    *)
(* Results as the Search arm leaves it, and DownloadSelection entered     *)
(* from the last book, the window scrolled as the Down keys that lead     *)
(* there scroll it                                                        *)
InitScroll ==
    /\ app \in {[AppNew EXCEPT !.mode = AppMode("Results"),
                               !.query = <<"a">>,
                               !.books = FirstBooks(VisibleRows + 1)]}
                   \cup {[AppNew EXCEPT
                             !.mode = AppMode("DownloadSelection"),
                             !.query = <<"a">>,
                             !.books = FirstBooks(VisibleRows + 1),
                             !.selected_book_index = VisibleRows,
                             !.results_scroll = 1,
                             !.download_links = FirstLinks(n)] :
                            n \in 0..MaxLinks}
    /\ command_rx = <<>>
    /\ tasks = {}
    /\ pc = "recv"
    /\ last = NoEvent(app)
    /\ ClientIdle
    /\ EngineIdle

SpecScroll == InitScroll /\ [][Next]_vars

(* The scheduling of run_app: the loop goes on to its poll whenever it is *)
(* not blocked in event::read, and the runtime lets a spawned task run to *)
(* its end; nothing makes the terminal deliver an event                   *)
SpecLive == Spec /\ WF_vars(Recv) /\ WF_vars(TaskFinish)

(* run_app's Search arm with a message to take: a list of 11 books was    *)
(* scrolled in Results, Help was opened and closed (which leaves the list, *)
(* the cursor and the scroll offset), a query was entered, and the channel *)
(* holds the Search message the arm at main.rs:114 is written to receive   *)
InitArrive ==
    /\ \E c \in {0, VisibleRows}, s \in 0..1 :
          /\ s <= c /\ c < s + VisibleRows
          /\ app = perform_search(
                       [AppNew EXCEPT !.query = <<"a">>,
                                      !.books = FirstBooks(VisibleRows + 1),
                                      !.selected_book_index = c,
                                      !.results_scroll = s]).app
    /\ command_rx = <<AppCommand("Search", <<"a">>, NoMsg, NoFile)>>
    /\ tasks = {}
    /\ pc = "recv"
    /\ last = NoEvent(app)
    /\ ClientIdle
    /\ EngineIdle

SpecArrive == InitArrive /\ [][Next]_vars

----------------------------------------------------------------------------
(* The state machine of the search client *)

(* AnnaScraper::new in a process whose cache table is empty; the         *)
(* controller is not running                                              *)
InitClient ==
    /\ store = [q \in Queries |-> NoRow]
    /\ now = 0
    /\ has_cache \in BOOLEAN
    /\ call = NoCall
    /\ app = AppNew
    /\ command_rx = <<>>
    /\ tasks = {}
    /\ pc = "recv"
    /\ last = NoEvent(AppNew)
    /\ EngineIdle

(* search, up to the first await: the cache lookup, in which              *)
(* Connection::open succeeds or fails                                      *)
search_begin(opens) ==
    /\ call.at = "done"
    /\ \E query \in Queries, max_results \in 0..MaxResults,
          overflow_checks \in BOOLEAN :
          LET got == IF opens
                     THEN cache_get(store, now, query, overflow_checks)
                     ELSE Err("Failed to open cache database")
              hit == search_cached(has_cache, got, max_results)
              c   == Call("search", query, max_results)
          IN  call' = IF has_cache /\ got.error = Panicked.error
                      THEN [c EXCEPT !.at = "panicked"]
                      ELSE IF hit = {} THEN c
                      ELSE [c EXCEPT !.at = "done",
                                     !.ret = Ok(CHOOSE b \in hit : TRUE)]
    /\ UNCHANGED <<store, now, has_cache>>
    /\ UNCHANGED uiVars
    /\ UNCHANGED engineVars

SearchBegin == search_begin(TRUE)

(* get_book_details, up to the first await *)
DetailsBegin ==
    /\ call.at = "done"
    /\ \E i \in 1..MaxBooks : call' = Call("details", Book(i).url, 0)
    /\ UNCHANGED <<store, now, has_cache>>
    /\ UNCHANGED uiVars
    /\ UNCHANGED engineVars

(* fetch_html: one GET, then the checks of the response *)
FetchHtml ==
    /\ call.at = "fetch"
    /\ \E resp \in Responses(IF call.op = "search" THEN SearchPages
                             ELSE BookPages) :
          call' = IF fetch_failed(resp)
                  THEN [call EXCEPT !.requests = @ + 1,
                                    !.resp = resp,
                                    !.at = "done",
                                    !.ret = Err(fetch_error(resp))]
                  ELSE [call EXCEPT !.requests = @ + 1,
                                    !.resp = resp,
                                    !.at = "parse"]
    /\ UNCHANGED <<store, now, has_cache>>
    /\ UNCHANGED uiVars
    /\ UNCHANGED engineVars

(* search after fetch_html returned: parse, write the cache, return; a     *)
(* failure of the write is ignored                                         *)
SearchFinish ==
    /\ call.at = "parse"
    /\ call.op = "search"
    /\ LET books == parse_search_results(call.resp.html, call.max_results)
           write == books # <<>> /\ has_cache
       IN  \E set_ok \in BOOLEAN :
              /\ store' = IF write /\ set_ok
                          THEN cache_set(store, now, call.arg, books)
                          ELSE store
              /\ call' = [call EXCEPT
                             !.parsed = @ + 1,
                             !.sets = IF write THEN @ + 1 ELSE @,
                             !.stored = IF write /\ set_ok THEN @ + 1 ELSE @,
                             !.resp = Response(call.resp.kind, NoPage),
                             !.at = "done",
                             !.ret = Ok(books)]
    /\ UNCHANGED <<now, has_cache>>
    /\ UNCHANGED uiVars
    /\ UNCHANGED engineVars

(* get_book_details after fetch_html returned *)
DetailsFinish ==
    /\ call.at = "parse"
    /\ call.op = "details"
    /\ call' = [call EXCEPT !.parsed = @ + 1,
                            !.resp = Response(call.resp.kind, NoPage),
                            !.at = "done",
                            !.ret = Ok(parse_download_links(call.resp.html))]
    /\ UNCHANGED <<store, now, has_cache>>
    /\ UNCHANGED uiVars
    /\ UNCHANGED engineVars

(* The clock advances, by a second or by the length of the freshness     *)
(* window; the readings modelled are those within MaxDrift seconds after  *)
(* the start and after one window                                         *)
Tick ==
    /\ \E d \in {1, TTL} :
          /\ now + d <= TTL + MaxDrift
          /\ (now + d) % TTL <= MaxDrift
          /\ now' = now + d
    /\ UNCHANGED <<store, has_cache, call>>
    /\ UNCHANGED uiVars
    /\ UNCHANGED engineVars

NextClient ==
    SearchBegin \/ DetailsBegin \/ FetchHtml \/ SearchFinish
        \/ DetailsFinish \/ Tick

SpecClient == InitClient /\ [][NextClient]_vars

(* The search client over a cache table that holds, under the first query, *)
(* a row written earlier, a row stamped one second after the clock reading *)
(* (the clock was set back, or the file came from another machine) or a    *)
(* row whose results text does not parse, and whose database file may fail *)
(* to open                                                                 *)
InitStore ==
    /\ \E row \in {Row(serialize(FirstBooks(MaxResults)), t,
                        FirstBooks(MaxResults)) : t \in 0..1}
                      \cup {Row(Corrupt, 0, <<>>)} :
          store = [q \in Queries |->
                      IF q = <<"query ", 1>> THEN {row} ELSE NoRow]
    /\ now = 0
    /\ has_cache \in BOOLEAN
    /\ call = NoCall
    /\ app = AppNew
    /\ command_rx = <<>>
    /\ tasks = {}
    /\ pc = "recv"
    /\ last = NoEvent(AppNew)
    /\ EngineIdle

SearchBeginUnreadable == search_begin(FALSE)

NextStore == NextClient \/ SearchBeginUnreadable

SpecStore == InitStore /\ [][NextStore]_vars

----------------------------------------------------------------------------
(* The HTML parsers applied to documents *)

(* Search pages of up to MaxAnchors anchors, each of one of these kinds   *)
(* and container depths                                                   *)
SearchDocs ==
    LET kinds ==
            {<<"focus", 1>>, <<"focus", 0>>, <<"md5", ContainerLevels>>,
             <<"md5", ContainerLevels + 1>>, <<"titled", 1>>, <<"book", 1>>,
             <<"none", 1>>, <<"nohref", 1>>, <<"untitled", 1>>}
    IN  UNION {{[k \in 1..n |-> SearchAnchor(k, ks[k][1], ks[k][2])] :
                   ks \in [1..n -> kinds]} : n \in 0..MaxAnchors}

(* Book pages of up to MaxAnchors anchors; the anchors of one section are *)
(* next to each other, and a section is numbered by its first anchor      *)
LinkDocs ==
    LET kinds ==
            {<<"libgen", 1, "id">>, <<"libgen", 1, "class">>,
             <<"download", 2, "id">>, <<"libgen", 1, "both">>,
             <<"class", 2, "data">>, <<"libgen", 1, "loose">>,
             <<"mirror", 2, "loose">>, <<"nohref", 1, "id">>,
             <<"plain", 1, "loose">>, <<"all", 1, "loose">>,
             <<"annasmirror", 2, "loose">>}
        together(ks) ==
            \A i \in DOMAIN ks, k \in DOMAIN ks :
                (i < k /\ ks[i][3] = ks[k][3] /\ ks[i][3] # "loose") =>
                    \A j \in i..k : ks[j][3] = ks[i][3]
        first(ks, k) ==
            CHOOSE i \in DOMAIN ks :
                /\ ks[i][3] = ks[k][3]
                /\ \A j \in DOMAIN ks : ks[j][3] = ks[k][3] => i <= j
    IN  UNION {{[k \in 1..n |-> LinkAnchor(k, ks[k], first(ks, k))] :
                   ks \in {f \in [1..n -> kinds] : together(f)}} :
               n \in 0..MaxAnchors}

InitParse ==
    /\ parser \in {ParseInput(d, m) :
                      d \in SearchDocs \cup LinkDocs, m \in 0..MaxResults}
    /\ app = AppNew
    /\ command_rx = <<>>
    /\ tasks = {}
    /\ pc = "recv"
    /\ last = NoEvent(AppNew)
    /\ ClientIdle
    /\ download = NoDownload
    /\ disk = Disk(FALSE, <<>>)
    /\ cli = NoCli
    /\ sweep = NoSweep

(* parse_search_results(html, max_results) *)
ParseSearch ==
    /\ parser.op = "none"
    /\ parser' = [parser EXCEPT
                     !.op = "search",
                     !.ret = Ok(parse_search_results(parser.html,
                                                     parser.max_results))]
    /\ UNCHANGED <<download, disk, cli>>
    /\ UNCHANGED uiVars
    /\ UNCHANGED clientVars
    /\ UNCHANGED sweep

(* parse_download_links(html) *)
ParseLinks ==
    /\ parser.op = "none"
    /\ parser' = [parser EXCEPT
                     !.op = "links",
                     !.ret = Ok(parse_download_links(parser.html))]
    /\ UNCHANGED <<download, disk, cli>>
    /\ UNCHANGED uiVars
    /\ UNCHANGED clientVars
    /\ UNCHANGED sweep

NextParse == ParseSearch \/ ParseLinks

SpecParse == InitParse /\ [][NextParse]_vars

----------------------------------------------------------------------------
(* The state machine of the download engine *)

WriteFile_marker(files, name, bytes) ==
    [n \in DOMAIN files \cup {name \o <<".part">>} |->
        IF n = name \o <<".part">> THEN bytes ELSE files[n]]

(* The files of the disk are a function from names to lengths in bytes *)
WriteFile(files, name, bytes) ==
    [n \in DOMAIN files \cup {name} |->
        IF n = name THEN bytes ELSE files[n]]

(* download(url, filename) is called: a URL with or without a usable last *)
(* segment, a name or None, a download directory that exists or not      *)
InitDownload ==
    /\ disk \in {Disk(FALSE, <<>>),
                 Disk(TRUE, WriteFile(<<>>, <<"file", " ", "name.epub">>, 1)),
                 Disk(TRUE, WriteFile(<<>>, <<"name.pdf", ".part">>, 1))}
    /\ download \in
          {DownloadCall(<<"https:", "/", "/", "example.com", "/">> \o u, f,
                        disk) :
              u \in {<<"file", "%20", "name.epub">>,
                     <<"file.pdf", "?", "token=abc">>,
                     <<"path", "/">>,
                     <<"caf", "%FF", ".pdf">>},
              f \in {{}, {<<"name.pdf">>}}}
    /\ now \in 0..MaxDrift
    /\ parser = ParseInput(NoPage, 0)
    /\ cli = NoCli
    /\ sweep = NoSweep
    /\ store = [q \in Queries |-> NoRow]
    /\ has_cache = TRUE
    /\ call = NoCall
    /\ app = AppNew
    /\ command_rx = <<>>
    /\ tasks = {}
    /\ pc = "recv"
    /\ last = NoEvent(AppNew)

(* send().await, content_length() and determine_filename *)
DownloadSend ==
    /\ download.at = "send"
    /\ \/ download' = [download EXCEPT
                          !.at = "done",
                          !.ret = Err("Failed to start download")]
       \/ \E status \in {"200 OK", "404 Not Found"},
             length \in {{}} \cup {{n} : n \in 0..MaxTotal},
             disposition \in
                 {{},
                  {[ascii |-> TRUE, parts |-> <<<<"attachment">>>>]},
                  {[ascii |-> TRUE,
                    parts |-> <<<<"attachment">>,
                                <<" ", "filename=", "\"", "test.pdf",
                                  "\"">>>>]},
                  {[ascii |-> FALSE,
                    parts |-> <<<<"filename=", "buch.pdf">>>>]},
                  {[ascii |-> TRUE,
                    parts |-> <<<<"attachment">>,
                                <<" ", "filename=", "\"", "fallback.pdf",
                                  "\"">>,
                                <<" ", "filename*=", "UTF-8''", "actual",
                                  "%20", "file.pdf">>>>]},
                  {[ascii |-> TRUE,
                    parts |-> <<<<"attachment">>,
                                <<" ", "filename*=", "UTF-8''", "actual",
                                  "%20", "file.pdf">>,
                                <<" ", "filename=", "fallback.pdf">>>>]},
                  {[ascii |-> TRUE,
                    parts |-> <<<<"attachment">>,
                                <<" ", "filename*=", "utf-8''", "actual",
                                  "%20", "file.pdf">>,
                                <<" ", "filename=", "fallback.pdf">>>>]}} :
             LET response == DownloadResponse(status, length, disposition)
                 total    == total_size(response)
             IN  download' =
                     IF total = {}
                     THEN [download EXCEPT
                              !.resp = response,
                              !.at = "done",
                              !.ret = Err("Failed to get content length")]
                     ELSE [download EXCEPT
                              !.resp = response,
                              !.total_size = CHOOSE n \in total : TRUE,
                              !.filename =
                                  determine_filename(download.url,
                                      download.provided, response, now),
                              !.at = "mkdir"]
    /\ UNCHANGED <<disk, parser, cli>>
    /\ UNCHANGED uiVars
    /\ UNCHANGED clientVars
    /\ UNCHANGED sweep

(* create_dir_all(download_path) *)
DownloadCreateDir ==
    /\ download.at = "mkdir"
    /\ \/ /\ disk' = [disk EXCEPT !.dir = TRUE]
          /\ download' = [download EXCEPT !.at = "create"]
       \/ /\ ~disk.dir
          /\ download' = [download EXCEPT
                             !.at = "done",
                             !.ret = Err("Failed to create download directory")]
          /\ UNCHANGED disk
    /\ UNCHANGED <<parser, cli>>
    /\ UNCHANGED uiVars
    /\ UNCHANGED clientVars
    /\ UNCHANGED sweep

(* File::create(download_path.join(filename)): an empty name is the path  *)
(* of the directory itself                                                *)
DownloadCreateFile ==
    /\ download.at = "create"
    /\ \/ /\ download.filename # <<>>
          /\ disk' = [disk EXCEPT
                         !.files = WriteFile(@, download.filename, 0)]
          /\ download' = [download EXCEPT !.at = "stream"]
       \/ /\ download' = [download EXCEPT
                             !.at = "done",
                             !.ret = Err("Failed to create file")]
          /\ UNCHANGED disk
    /\ UNCHANGED <<parser, cli>>
    /\ UNCHANGED uiVars
    /\ UNCHANGED clientVars
    /\ UNCHANGED sweep

(* One turn of the loop over bytes_stream: the end of the stream, a       *)
(* failed chunk, or a chunk that is written and counted; a write that     *)
(* fails has written fewer bytes than the chunk holds                     *)
DownloadChunk ==
    /\ download.at = "stream"
    /\ \/ /\ download' = [download EXCEPT
                             !.at = "done",
                             !.ret = Ok(download.filename)]
          /\ UNCHANGED disk
       \/ /\ download' = [download EXCEPT
                             !.at = "done",
                             !.ret = Err("Failed to download chunk")]
          /\ UNCHANGED disk
       \/ /\ Len(download.chunks) < MaxChunks
          /\ \E len \in 1..MaxChunkLen :
                \/ /\ disk' = [disk EXCEPT
                                  !.files[download.filename] = @ + len]
                   /\ download' =
                          [download EXCEPT
                              !.chunks = Append(@, len),
                              !.downloaded =
                                  progress(@, len, download.total_size)]
                \/ \E written \in 0..(len - 1) :
                      /\ disk' = [disk EXCEPT
                                     !.files[download.filename] = @ + written]
                      /\ download' = [download EXCEPT
                                         !.at = "done",
                                         !.ret = Err("Failed to write chunk")]
    /\ UNCHANGED <<parser, cli>>
    /\ UNCHANGED uiVars
    /\ UNCHANGED clientVars
    /\ UNCHANGED sweep

NextDownload ==
    DownloadSend \/ DownloadCreateDir \/ DownloadCreateFile \/ DownloadChunk

SpecDownload == InitDownload /\ [][NextDownload]_vars

----------------------------------------------------------------------------
(* The state machine of the sweep of the download directory *)

(* A download directory that does not exist, or one that holds some of   *)
(* the files, each as File::create leaves it                             *)
InitSweep ==
    /\ disk \in {Disk(FALSE, <<>>)}
                 \cup {Disk(TRUE, [n \in names |-> 0]) :
                          names \in SUBSET {<<"file1.pdf", ".part">>,
                                            <<"file2.epub", ".crdownload">>,
                                            <<"complete_file.pdf">>,
                                            <<"notes", ".part", ".txt">>,
                                            <<".part">>}}
    /\ sweep = Sweep("idle", disk)
    /\ download = NoDownload
    /\ parser = ParseInput(NoPage, 0)
    /\ cli = NoCli
    /\ ClientIdle
    /\ app = AppNew
    /\ command_rx = <<>>
    /\ tasks = {}
    /\ pc = "recv"
    /\ last = NoEvent(AppNew)

(* read_dir(download_path): an error, as when the directory is missing,  *)
(* or the stream of its entries                                          *)
SweepReadDir ==
    /\ sweep.at = "idle"
    /\ \/ sweep' = [sweep EXCEPT !.at = "done", !.ret = Err("read_dir")]
       \/ /\ disk.dir
          /\ sweep' = [sweep EXCEPT !.at = "entries",
                                    !.before = disk,
                                    !.pending = DOMAIN disk.files]
    /\ UNCHANGED <<parser, download, disk, cli>>
    /\ UNCHANGED uiVars
    /\ UNCHANGED clientVars

(* One turn of the loop over next_entry: the end of the stream, an error *)
(* of the stream, or an entry, in any order; an entry with a partial      *)
(* name is removed, and a failed removal ends the sweep with its error   *)
SweepEntry ==
    /\ sweep.at = "entries"
    /\ \/ /\ sweep.pending = {}
          /\ sweep' = [sweep EXCEPT !.at = "done", !.ret = Ok(<<>>)]
          /\ UNCHANGED disk
       \/ /\ sweep.pending # {}
          /\ sweep' = [sweep EXCEPT !.at = "done", !.ret = Err("next_entry")]
          /\ UNCHANGED disk
       \/ \E name \in sweep.pending :
             IF is_partial(name)
             THEN \/ /\ disk' = [disk EXCEPT
                                    !.files =
                                        [n \in DOMAIN @ \ {name} |-> @[n]]]
                     /\ sweep' = [sweep EXCEPT !.pending = @ \ {name}]
                  \/ /\ sweep' = [sweep EXCEPT !.at = "done",
                                                !.ret = Err("remove_file")]
                     /\ UNCHANGED disk
             ELSE /\ sweep' = [sweep EXCEPT !.pending = @ \ {name}]
                  /\ UNCHANGED disk
    /\ UNCHANGED <<parser, download, cli>>
    /\ UNCHANGED uiVars
    /\ UNCHANGED clientVars

(* is_download_in_progress(filename), before or after the sweep *)
SweepAsk ==
    /\ sweep.at \in {"idle", "done"}
    /\ \E filename \in {<<"file1.pdf">>, <<"file2.epub">>,
                         <<"complete_file.pdf">>, <<"notes">>, <<>>} :
          sweep' = [sweep EXCEPT
                       !.asked = {filename},
                       !.answer = is_download_in_progress(disk.files,
                                                          filename)]
    /\ UNCHANGED <<parser, download, disk, cli>>
    /\ UNCHANGED uiVars
    /\ UNCHANGED clientVars

NextSweep == SweepReadDir \/ SweepEntry \/ SweepAsk

SpecSweep == InitSweep /\ [][NextSweep]_vars

----------------------------------------------------------------------------
(* The state machine of the non-interactive run *)

InitCli ==
    /\ cli = CliRun("search")
    /\ sweep = NoSweep
    /\ download = NoDownload
    /\ disk = Disk(FALSE, <<>>)
    /\ parser = ParseInput(NoPage, 0)
    /\ store = [q \in Queries |-> NoRow]
    /\ now = 0
    /\ has_cache = TRUE
    /\ call = NoCall
    /\ app = AppNew
    /\ command_rx = <<>>
    /\ tasks = {}
    /\ pc = "recv"
    /\ last = NoEvent(AppNew)

(* AnnaScraper::new and search: an error, no result, or the books *)
CliSearch ==
    /\ cli.at = "search"
    /\ \/ cli' = [cli EXCEPT !.at = "done", !.ret = Err("Search failed")]
       \/ \E n \in 0..MaxBooks :
             cli' = IF n = 0
                    THEN [cli EXCEPT !.at = "done", !.ret = Ok(<<>>)]
                    ELSE [cli EXCEPT !.at = "read", !.books = FirstBooks(n)]
    /\ UNCHANGED <<parser, download, disk>>
    /\ UNCHANGED uiVars
    /\ UNCHANGED clientVars
    /\ UNCHANGED sweep

(* read_line and the parse of the selection: -1 stands for a line that  *)
(* is not a number                                                       *)
CliReadLine ==
    /\ cli.at = "read"
    /\ \E selection \in -1..(MaxBooks + 1) :
          cli' = IF selection = -1
                 THEN [cli EXCEPT !.reads = @ + 1,
                                  !.at = "done",
                                  !.ret = Err("Invalid selection")]
                 ELSE IF selection < 1 \/ selection > Len(cli.books)
                 THEN [cli EXCEPT !.reads = @ + 1,
                                  !.at = "done",
                                  !.ret = Err("Selection out of range")]
                 ELSE [cli EXCEPT !.reads = @ + 1,
                                  !.selection = selection,
                                  !.at = "links"]
    /\ UNCHANGED <<parser, download, disk>>
    /\ UNCHANGED uiVars
    /\ UNCHANGED clientVars
    /\ UNCHANGED sweep

(* get_book_details: an error, no link, or up to MaxLinks links *)
CliLinks ==
    /\ cli.at = "links"
    /\ LET link(text, url) ==
               [text |-> text, url |-> url, source |-> detect_source(url)]
           found ==
               {DownloadLink(1),
                DownloadLink(2),
                link(<<"LIBGEN", " Fast">>,
                     BaseUrl \o <<"/", "slow_", "download", "/", "1">>),
                link(<<"Slow ", "Mirror">>,
                     <<"http:", "/", "/", "example.com", "/", "mirror">>)}
       IN  \/ cli' = [cli EXCEPT
                         !.at = "done",
                         !.ret = Err("Failed to fetch download links")]
           \/ \E n \in 0..MaxLinks : \E links \in [1..n -> found] :
                 cli' = IF n = 0
                        THEN [cli EXCEPT !.at = "done", !.ret = Ok(<<>>)]
                        ELSE [cli EXCEPT !.at = "select", !.links = links]
    /\ UNCHANGED <<parser, download, disk>>
    /\ UNCHANGED uiVars
    /\ UNCHANGED clientVars
    /\ UNCHANGED sweep

(* The link is chosen, the file is named and download is called *)
CliDownload ==
    /\ cli.at = "select"
    /\ LET selected_link == auto_select(cli.links)
           book == cli.books[cli.selection]
           filename == Take(book.title, TitleChars)
                           \o <<" - ", UnwrapOr(book.author,
                                                "Unknown")>>
       IN  IF selected_link = {}
           THEN /\ cli' = [cli EXCEPT
                              !.at = "done",
                              !.ret = Err("No download link available")]
                /\ UNCHANGED download
           ELSE /\ cli' = [cli EXCEPT !.at = "download",
                                      !.selected = selected_link,
                                      !.downloads = @ + 1]
                /\ download' =
                       DownloadCall((CHOOSE l \in selected_link : TRUE).url,
                                    {filename}, disk)
    /\ UNCHANGED <<parser, disk>>
    /\ UNCHANGED uiVars
    /\ UNCHANGED clientVars
    /\ UNCHANGED sweep

(* download returned *)
CliFinish ==
    /\ cli.at = "download"
    /\ download.at = "done"
    /\ cli' = [cli EXCEPT
                  !.at = "done",
                  !.ret = IF download.ret.ok THEN Ok(<<>>)
                          ELSE Err("Download failed")]
    /\ UNCHANGED <<parser, download, disk>>
    /\ UNCHANGED uiVars
    /\ UNCHANGED clientVars
    /\ UNCHANGED sweep

NextCli ==
    CliSearch \/ CliReadLine \/ CliLinks \/ CliDownload \/ CliFinish
        \/ NextDownload

SpecCli == InitCli /\ [][NextCli]_vars

----------------------------------------------------------------------------
(* Properties of the controller *)

KeyStep == pc = "read" /\ pc' # "read" /\ last'.key # NoKey

RecvStep == pc = "recv" /\ pc' # "recv"

Idle == tasks = {} /\ command_rx = <<>>

(* C1: once the search task dispatched by Enter in Search has finished and *)
(* every message it sent has been applied, the controller has left         *)
(* Downloading (for Results or Error): it is never in Downloading with     *)
(* status "Searching...", no task running and nothing left to receive, a   *)
(* state that no key but Ctrl+C and no message can end.                    *)
C1_SearchLeavesDownloading ==
    ~(/\ app.mode.tag = "Downloading"
      /\ app.downloading_message.text = "Searching..."
      /\ Idle)

(* C2: once the link-fetch task dispatched by Enter in Results has         *)
(* finished and every message it sent has been applied, the controller has *)
(* left Downloading (for DownloadSelection or Error).                      *)
C2_FetchLeavesDownloading ==
    ~(/\ app.mode.tag = "Downloading"
      /\ app.downloading_message.text = "Fetching download links..."
      /\ Idle)

(* C3: applying the result of a successful download sets the mode to       *)
(* Search and leaves the query, the book list and the link list empty;     *)
(* applying the result of a failed download sets the mode to Error.        *)
C3_DownloadResultApplied ==
    [][(RecvStep /\ command_rx # <<>>) =>
          LET c == Head(command_rx)
          IN  /\ c.kind = "CompleteDownload" =>
                    /\ app'.mode.tag = "Search"
                    /\ app'.query = <<>>
                    /\ app'.books = <<>>
                    /\ app'.download_links = <<>>
              /\ (c.kind = "ShowError" /\ c.err.text = "Download failed: ") =>
                    app'.mode.tag = "Error"]_vars

CursorOk(list, cursor) ==
    IF list = <<>> THEN cursor = 0 ELSE cursor < Len(list)

(* C4: in every reachable state the book cursor and the link cursor are    *)
(* each smaller than the length of their list when it is non-empty, and 0  *)
(* when it is empty.                                                       *)
C4_CursorsInRange ==
    /\ CursorOk(app.books, app.selected_book_index)
    /\ CursorOk(app.download_links, app.download_link_index)

C4_Witness ==
    /\ last.key.code = "Down"
    /\ last.mode = "Results"
    /\ last.sel = Len(app.books) - 1
    /\ app.selected_book_index = Len(app.books) - 1
    /\ app.selected_book_index > 0
    /\ app.download_links = <<>>

(* C5: in every reachable state and for every key, handle_keypress returns *)
(* one of the six modes together with Continue or Exit, and no key that    *)
(* was handled made the handler fail.                                      *)
C5_HandlersTotal ==
    /\ pc # "panicked"
    /\ \A key \in Keys :
          LET ret == handle_keypress(app, key)
          IN  /\ ret.flow \in {"Continue", "Exit"}
              /\ ret.app.mode.tag \in AppModeTags

C5_Witness ==
    /\ last.key.code = "Enter"
    /\ last.mode = "DownloadSelection"
    /\ app.mode.tag = "Downloading"
    /\ app.selected_book_index = Len(app.books) - 1
    /\ app.download_link_index = Len(app.download_links) - 1
    /\ app.download_link_index > 0

(* C6: in whichever mode Ctrl+C is read, the handler returns Exit and      *)
(* leaves every field of the App as it was, and no task is started.        *)
C6_CtrlCExits ==
    [][(KeyStep /\ last'.key = CtrlC) =>
          /\ pc' = "exited"
          /\ app' = app
          /\ tasks' = tasks]_vars

C6_Witness ==
    /\ pc = "exited"
    /\ last.key = CtrlC
    /\ last.mode = "Downloading"
    /\ app.mode.tag = "Downloading"

(* C7: Down and then Enter in Results, with n >= 1 books and the cursor at *)
(* i before Down, starts exactly one link fetch, for the URL of            *)
(* book[min(i + 1, n - 1)], and sets the mode to Downloading with status   *)
(* "Fetching download links...".                                           *)
C7_DownThenEnter ==
    [][(/\ KeyStep
        /\ last'.key.code = "Enter"
        /\ app.mode.tag = "Results"
                /\ last'.down_from # -1
        /\ Len(app.books) >= 1) =>
          LET n == Len(app.books)
              i == last'.down_from
              t == Task("links", At(app.books, Min(i + 1, n - 1)).url, NoFile)
          IN  /\ t \notin tasks
              /\ tasks' = tasks \cup {t}
              /\ app'.mode = AppMode("Downloading")
              /\ app'.downloading_message.text
                     = "Fetching download links..."]_vars

C7_Witness ==
    /\ last.key.code = "Enter"
    /\ last.mode = "Results"
    /\ last.down_from = 0
    /\ Len(app.books) = 2
    /\ tasks = {Task("links", Book(2).url, NoFile)}
    /\ app.mode.tag = "Downloading"

(* C8: Enter in Search with a non-empty query starts exactly one search    *)
(* task, for the query as it stands, and sets the mode to Downloading with *)
(* status "Searching..."; with an empty query it starts no task and        *)
(* changes nothing.                                                        *)
C8_EnterInSearch ==
    [][(KeyStep /\ last'.key.code = "Enter" /\ app.mode.tag = "Search") =>
          LET t == Task("search", app.query, NoFile)
          IN  IF app.query # <<>>
              THEN /\ t \notin tasks
                   /\ tasks' = tasks \cup {t}
                   /\ app' = [app EXCEPT
                                 !.mode = AppMode("Downloading"),
                                 !.downloading_message =
                                     Status("Searching...", NoFile)]
              ELSE /\ tasks' = tasks
                   /\ app' = app
                   /\ command_rx' = command_rx
                   /\ pc' = "recv"]_vars

C8_Witness ==
    /\ last.key.code = "Enter"
    /\ last.mode = "Search"
    /\ tasks = {Task("search", <<"a">>, NoFile)}
    /\ app.mode.tag = "Downloading"
    /\ app.downloading_message.text = "Searching..."

----------------------------------------------------------------------------
(* Properties of the search client *)

SearchBeginStep == call.at = "done" /\ call' # call /\ call'.op = "search"

Fresh(row) == now - row.timestamp <= TTL

(* C9: search returns at once, without an HTTP request, the first          *)
(* max_results books of the cached sequence exactly when the cache holds   *)
(* under the same query string a fresh row with at least max_results       *)
(* books; in every other case the call's next step is the HTTP GET.        *)
C9_CacheHitRule ==
    [][/\ SearchBeginStep =>
             LET rows == {r \in store[call'.arg] :
                             Fresh(r) /\ Len(r.written) >= call'.max_results}
             IN  IF rows # {}
                 THEN /\ call'.at = "done"
                      /\ call'.requests = 0
                      /\ \E r \in rows :
                            call'.ret = Ok(Take(r.written, call'.max_results))
                 ELSE /\ call'.at = "fetch"
                      /\ call'.requests = 0
       /\ (call.op = "search" /\ call.at = "fetch" /\ call' # call) =>
             call'.requests = 1]_vars

C9_Witness ==
    /\ call.op = "search"
    /\ call.at = "done"
    /\ call.requests = 0
    /\ call.max_results = 1
    /\ call.ret = Ok(<<Book(2)>>)
    /\ \E r \in store[call.arg] :
          r.written = <<Book(2), Book(1)>> /\ now - r.timestamp = TTL

(* C10: a call of search or of get_book_details sends at most one HTTP     *)
(* request, and when the request fails in transport or the response is not *)
(* a success the call returns an error without having parsed anything or   *)
(* written the cache.                                                      *)
C10_NoRetry ==
    /\ call.requests <= 1
    /\ (call.at = "done" /\ call.resp.kind \in {"transport", "status"}) =>
          /\ ~call.ret.ok
          /\ call.requests = 1
          /\ call.parsed = 0
          /\ call.sets = 0

C10_Witness ==
    /\ call.op = "search"
    /\ call.at = "done"
    /\ call.resp.kind = "status"
    /\ call.requests = 1
    /\ ~call.ret.ok
    /\ has_cache
    /\ store[call.arg] # NoRow

(* C11: get(q) returns the book sequence last given to set(q, ...) , order *)
(* and field values included, while the row is at most 24 hours old, and   *)
(* a miss once it is older; get of a query never set is a miss; the        *)
(* lookup that opens search changes no row.                                *)
C11_CacheRoundTrip ==
    /\ [](\A q \in Queries :
            \A overflow_checks \in BOOLEAN :
               cache_get(store, now, q, overflow_checks) =
                   Ok(IF store[q] = NoRow THEN {}
                      ELSE {r.written : r \in {x \in store[q] : Fresh(x)}}))
    /\ [][SearchBeginStep => store' = store]_vars

C11_Witness ==
    \E q \in Queries, p \in Queries :
        /\ \E r \in store[q] :
              /\ now - r.timestamp = TTL
              /\ r.written = <<Book(2), Book(1)>>
              /\ cache_get(store, now, q, TRUE) = Ok({r.written})
        /\ \E r \in store[p] : now - r.timestamp > TTL
        /\ call.op = "search"
        /\ call.at = "done"
        /\ call.requests = 0

----------------------------------------------------------------------------
(* Properties of the HTML parsers *)

(* The anchors of a document that a selector matches, in document order *)
Matched(doc, selector) == SelectSeq(doc, LAMBDA e : matches(e, selector))

(* The selectors of a list that match some anchor of a document *)
Hits(doc, selectors) ==
    {s \in DOMAIN selectors : Matched(doc, selectors[s]) # <<>>}

(* C12: parse_search_results returns the books extracted, in document      *)
(* order, from the first max_results matches of the first selector of the  *)
(* list that matches any element, and nothing from any later selector,     *)
(* even when every one of those matches is dropped; it returns at most     *)
(* max_results books, and none when no selector matches.                   *)
C12_FirstSelectorOnly ==
    parser.op = "search" =>
        LET hits  == Hits(parser.html, BookSelectors)
            first == CHOOSE s \in hits : \A t \in hits : s <= t
        IN  /\ parser.ret.ok
            /\ Len(parser.ret.value) <= parser.max_results
            /\ parser.ret.value =
                   IF hits = {} THEN <<>>
                   ELSE extracted(Take(Matched(parser.html,
                                               BookSelectors[first]),
                                       parser.max_results))

C12_Witness ==
    /\ parser.op = "search"
    /\ parser.max_results = 1
    /\ parser.ret.value = <<>>
    /\ Matched(parser.html, BookSelectors[1]) = <<>>
    /\ LET md5 == Matched(parser.html, BookSelectors[2])
       IN  /\ Len(md5) = 2
           /\ extract_book_info(md5[1]) = {}
           /\ extract_book_info(md5[2]) # {}
    /\ \E k \in DOMAIN parser.html :
          /\ matches(parser.html[k], BookSelectors[4])
          /\ extract_book_info(parser.html[k]) # {}

(* C13: every anchor that parse_search_results considers, that has an href *)
(* and a non-empty title and whose 5 nearest ancestors carry no container  *)
(* class, yields a Book of the result with its title, its absolute URL and *)
(* author, year, language, format and size all None.                       *)
C13_TitledAnchorKept ==
    (parser.op = "search" /\ Hits(parser.html, BookSelectors) # {}) =>
        LET hits  == Hits(parser.html, BookSelectors)
            first == CHOOSE s \in hits : \A t \in hits : s <= t
            considered == Take(Matched(parser.html, BookSelectors[first]),
                               parser.max_results)
        IN  \A k \in DOMAIN considered :
               LET e == considered[k]
               IN  (/\ e.href # {}
                    /\ e.text # <<>>
                    /\ find_book_container(e) = {}) =>
                       \E j \in DOMAIN parser.ret.value :
                          parser.ret.value[j] =
                              [title    |-> e.text,
                               author   |-> {},
                               year     |-> {},
                               language |-> {},
                               format   |-> {},
                               size     |-> {},
                               url      |-> BaseUrl
                                               \o UnwrapOr(e.href, <<>>)]

(* The section selectors that match an element of a document *)
SectionHits(doc) ==
    {s \in DOMAIN SectionSelectors :
        first_section(doc, SectionSelectors[s]) # {}}

(* C14: when a section selector matches and the section found by the first *)
(* such selector holds a link, parse_download_links returns the links of   *)
(* that one section and nothing else: the sections that later selectors    *)
(* match contribute no link.                                               *)
C14_OneSection ==
    (parser.op = "links" /\ SectionHits(parser.html) # {}) =>
        LET hits  == SectionHits(parser.html)
            first == CHOOSE s \in hits : \A t \in hits : s <= t
            found == first_section(parser.html, SectionSelectors[first])
            links == extract_links_from_section(
                         descendants(parser.html, CHOOSE n \in found : TRUE))
        IN  links # <<>> => parser.ret.value = links

(* C15: the sequence returned by one call of parse_download_links holds no *)
(* two links with the same URL, whether the links come from the section    *)
(* lookup or from the scan of the whole document.                          *)
C15_NoDuplicateUrl ==
    parser.op = "links" =>
        \A i \in DOMAIN parser.ret.value, j \in DOMAIN parser.ret.value :
            parser.ret.value[i].url = parser.ret.value[j].url => i = j

(* C16: parse_search_results and parse_download_links return Ok with a     *)
(* sequence for every document, and the empty sequence for a document in   *)
(* which none of their selectors matches anything.                         *)
C16_ParsersTotal ==
    parser.op # "none" =>
        /\ parser.ret.ok
        /\ DOMAIN parser.ret.value = 1..Len(parser.ret.value)
        /\ (parser.op = "search" /\ Hits(parser.html, BookSelectors) = {})
               => parser.ret.value = <<>>
        /\ (/\ parser.op = "links"
            /\ SectionHits(parser.html) = {}
            /\ Hits(parser.html, LinkSelectors) = {})
               => parser.ret.value = <<>>

C16_Witness ==
    /\ parser.op = "links"
    /\ Len(parser.html) >= 2
    /\ SectionHits(parser.html) = {}
    /\ Hits(parser.html, LinkSelectors) = {}
    /\ parser.ret = Ok(<<>>)

----------------------------------------------------------------------------
(* Properties of the download engine *)

(* The text after the last '/' of a URL *)
LastSegment(url) ==
    LET n == Len(url)
        k == CHOOSE i \in 0..n :
                 /\ i = 0 \/ url[i] = "/"
                 /\ \A j \in (i + 1)..n : url[j] # "/"
    IN  SubSeq(url, k + 1, n)

(* Percent-decoding, escape by escape *)
PercentDecoded(s) ==
    [i \in DOMAIN s |-> CASE s[i] = "%20" -> " "
                          [] s[i] = "%2B" -> "+"
                          [] s[i] = "%FF" -> "\\xFF"
                          [] OTHER        -> s[i]]

(* C17: the name of the downloaded file is the name the caller gave;       *)
(* failing that, the percent-decoded text after the last '/' of the URL    *)
(* when that text is non-empty and holds no '?'; failing that, the name    *)
(* parsed from the Content-Disposition header when it yields one; failing  *)
(* that, downloaded_file_<unix seconds>.tmp.                               *)
C17_FilenameOrder ==
    (download.at # "send" /\ download.resp.content_length # {}) =>
        LET segment == LastSegment(download.url)
            header  == UNION {IF h.ascii
                              THEN parse_content_disposition(h.parts)
                              ELSE {} : h \in download.resp.disposition}
        IN  download.filename =
                IF download.provided # {}
                THEN CHOOSE name \in download.provided : TRUE
                ELSE IF segment # <<>> /\ ~contains(segment, "?")
                THEN PercentDecoded(segment)
                ELSE IF header # {} THEN CHOOSE name \in header : TRUE
                ELSE <<"downloaded_file_", ToString(now), ".tmp">>

(* C18: when the response of a download carries no content length,         *)
(* download returns the error "Failed to get content length", and the      *)
(* download directory and its files are as they were when download was     *)
(* called: no directory created, no file created, no byte written.         *)
C18_NoLengthNoTrace ==
    (/\ download.at = "done"
     /\ download.resp.status # "none"
     /\ download.resp.content_length = {}) =>
        /\ download.ret = Err("Failed to get content length")
        /\ disk = download.before

C18_Witness ==
    /\ download.at = "done"
    /\ download.resp.status = "200 OK"
    /\ download.resp.content_length = {}
    /\ download.resp.disposition # {}
    /\ download.provided = {}
    /\ ~disk.dir
    /\ ~download.ret.ok

(* A chunk was received and written *)
ChunkStep ==
    /\ download.at = "stream"
    /\ Len(download'.chunks) = Len(download.chunks) + 1

(* C19: the position reported by a download is 0 before the first chunk,   *)
(* never decreases, is min(previous position + chunk length, advertised    *)
(* total) after each chunk and so never above the advertised total, also   *)
(* when more bytes arrive than were advertised; every chunk received is    *)
(* appended whole to the file.                                             *)
C19_ProgressCapped ==
    /\ []((download.at = "stream" /\ download.chunks = <<>>) =>
              download.downloaded = 0)
    /\ [](download.downloaded <= download.total_size)
    /\ [][download'.downloaded >= download.downloaded]_vars
    /\ [][ChunkStep =>
             LET len == download'.chunks[Len(download'.chunks)]
             IN  /\ download'.downloaded =
                        Min(download.downloaded + len, download.total_size)
                 /\ disk'.files[download.filename] =
                        disk.files[download.filename] + len]_vars

C19_Witness ==
    /\ download.at = "done"
    /\ download.ret.ok
    /\ download.chunks = <<2, 2>>
    /\ download.total_size = 2
    /\ download.downloaded = 2
    /\ disk.files[download.filename] = 4

----------------------------------------------------------------------------
(* Properties of the non-interactive run *)

C21_SelectsReliable ==
    (/\ cli.at \in {"download", "done"}
     /\ \E i \in DOMAIN cli.links : is_reliable(cli.links[i])) =>
        /\ cli.selected # {}
        /\ \A l \in cli.selected : is_reliable(l)

----------------------------------------------------------------------------
(* Properties of the link sources *)

(* C22: detect_source gives every URL exactly one of four labels, by a     *)
(* fixed priority: LibGen when the URL contains "libgen", whatever else it *)
(* contains; else Anna's Archive when it contains "annas"; else Mirror     *)
(* when it contains "mirror"; else Unknown.                                *)
C22_SourcePriority ==
    parser.op = "links" =>
        \A i \in DOMAIN parser.ret.value :
            LET link == parser.ret.value[i]
                has(w) == \E k \in DOMAIN link.url : link.url[k] = w
            IN  /\ link.source
                       \in {"LibGen", "Anna's Archive", "Mirror", "Unknown"}
                /\ link.source = "LibGen" <=> has("libgen")
                /\ link.source = "Anna's Archive" <=>
                       (has("annas") /\ ~has("libgen"))
                /\ link.source = "Mirror" <=>
                       (has("mirror") /\ ~has("annas") /\ ~has("libgen"))
                /\ link.source = "Unknown" <=>
                       (~has("mirror") /\ ~has("annas") /\ ~has("libgen"))

C22_Witness ==
    /\ parser.op = "links"
    /\ Len(parser.ret.value) = 3
    /\ LET value == parser.ret.value
           has(i, w) == \E k \in DOMAIN value[i].url : value[i].url[k] = w
       IN  /\ has(1, "libgen") /\ has(1, "annas") /\ has(1, "mirror")
           /\ value[1].source = "LibGen"
           /\ has(2, "annas") /\ has(2, "mirror")
           /\ value[2].source = "Anna's Archive"
           /\ has(3, "mirror")
           /\ value[3].source = "Mirror"

----------------------------------------------------------------------------
(* Properties of the list navigation *)

IsDown(key) == key.code = "Down" \/ (key.code = "Char" /\ key.ch = "j")

IsUp(key) == key.code = "Up" \/ (key.code = "Char" /\ key.ch = "k")

(* The cursor after Down or Up on a list of n entries *)
Moved(key, cursor, n) ==
    IF n = 0 THEN 0
    ELSE IF IsDown(key) THEN (IF cursor + 1 < n - 1 THEN cursor + 1 ELSE n - 1)
    ELSE (IF cursor - 1 > 0 THEN cursor - 1 ELSE 0)

(* C23: Down or 'j' sets the cursor of the current list to                 *)
(* min(cursor + 1, length - 1) and Up or 'k' sets it to max(cursor - 1, 0),*)
(* in Results for the book cursor and in DownloadSelection for the link    *)
(* cursor; the two lists, the mode and the cursor of the other list are    *)
(* unchanged, and on an empty list the cursor stays 0.                     *)
C23_CursorMoves ==
    [][(KeyStep /\ (IsDown(last'.key) \/ IsUp(last'.key))) =>
          /\ app.mode.tag = "Results" =>
                /\ app'.selected_book_index
                       = Moved(last'.key, app.selected_book_index,
                               Len(app.books))
                /\ app'.download_link_index = app.download_link_index
                /\ app'.books = app.books
                /\ app'.download_links = app.download_links
                /\ app'.mode = app.mode
          /\ app.mode.tag = "DownloadSelection" =>
                /\ app'.download_link_index
                       = Moved(last'.key, app.download_link_index,
                               Len(app.download_links))
                /\ app'.selected_book_index = app.selected_book_index
                /\ app'.books = app.books
                /\ app'.download_links = app.download_links
                /\ app'.mode = app.mode]_vars

C23_Witness ==
    /\ last.key.code = "Down"
    /\ last.mode = "Results"
    /\ last.sel = 1
    /\ Len(app.books) = 2
    /\ app.selected_book_index = 1
    /\ app.mode.tag = "Results"

(* C24: Esc in Results sets the mode to Search and leaves the query empty,  *)
(* the book list empty, the book cursor 0 and the results scroll offset 0; *)
(* the link list and the link cursor are not touched.                      *)
C24_EscInResults ==
    [][(KeyStep /\ last'.key.code = "Esc" /\ app.mode.tag = "Results") =>
          /\ app'.mode = AppMode("Search")
          /\ app'.query = <<>>
          /\ app'.books = <<>>
          /\ app'.selected_book_index = 0
          /\ app'.results_scroll = 0
          /\ app'.download_links = app.download_links
          /\ app'.download_link_index = app.download_link_index]_vars

C24_Witness ==
    /\ last.key.code = "Esc"
    /\ last.mode = "Results"
    /\ last.sel = VisibleRows
    /\ app.mode.tag = "Search"
    /\ app.books = <<>>
    /\ app.results_scroll = 0

(* C25: Esc in DownloadSelection sets the mode to Results and leaves the    *)
(* link list empty and the link cursor 0, while the book list, the book    *)
(* cursor, the query and the results scroll offset are exactly as before.  *)
C25_EscInSelection ==
    [][(/\ KeyStep
        /\ last'.key.code = "Esc"
        /\ app.mode.tag = "DownloadSelection") =>
          /\ app'.mode = AppMode("Results")
          /\ app'.download_links = <<>>
          /\ app'.download_link_index = 0
          /\ app'.books = app.books
          /\ app'.selected_book_index = app.selected_book_index
          /\ app'.query = app.query
          /\ app'.results_scroll = app.results_scroll]_vars

C25_Witness ==
    /\ last.key.code = "Esc"
    /\ last.mode = "DownloadSelection"
    /\ last.sel = VisibleRows
    /\ app.mode.tag = "Results"
    /\ app.download_links = <<>>
    /\ app.download_link_index = 0
    /\ Len(app.books) = VisibleRows + 1
    /\ app.selected_book_index = VisibleRows
    /\ app.results_scroll = 1
    /\ app.query # <<>>

----------------------------------------------------------------------------
(* Properties of the Error and Downloading modes *)

(* C26: in Error mode, Esc and Enter each set the mode to Search and clear *)
(* the stored error message; every other key except Ctrl+C leaves the mode *)
(* Error and the message unchanged.                                        *)
C26_ErrorDismissed ==
    [][(KeyStep /\ app.mode.tag = "Error") =>
          IF last'.key.code \in {"Esc", "Enter"}
          THEN /\ app'.mode = AppMode("Search")
               /\ app'.error_message = NoMsg
          ELSE last'.key # CtrlC =>
                  /\ app'.mode = app.mode
                  /\ app'.mode.tag = "Error"
                  /\ app'.error_message = app.error_message]_vars

C26_Witness ==
    /\ last.key.code = "Enter"
    /\ last.mode = "Error"
    /\ app.mode.tag = "Search"
    /\ app.error_message = NoMsg

----------------------------------------------------------------------------
(* Properties of the sweep of the download directory *)

AskStep ==
    sweep.at \in {"idle", "done"} /\ sweep'.at = sweep.at /\ sweep' # sweep

Suffixed(name) ==
    Len(name) > 0 /\ name[Len(name)] \in {".part", ".crdownload"}

C28_OneTask ==
    /\ [](Cardinality(tasks) <= 1)
    /\ [](tasks # {} => app.mode.tag = "Downloading")
    /\ [][tasks' \ tasks # {} =>
             /\ KeyStep
             /\ last'.key.code = "Enter"
             /\ app.mode.tag \in {"Search", "Results", "DownloadSelection"}
             /\ tasks = {}
             /\ app'.mode.tag = "Downloading"]_vars
    /\ [][(KeyStep /\ app.mode.tag = "Downloading" /\ last'.key # CtrlC) =>
             /\ app' = app
             /\ tasks' = tasks
             /\ command_rx' = command_rx]_vars

C28_Witness ==
    /\ last.key.code = "Enter"
    /\ last.mode = "Downloading"
    /\ app.mode.tag = "Downloading"
    /\ app.download_links # <<>>
    /\ \E t \in tasks : t.kind = "download"

----------------------------------------------------------------------------
(* Properties of the controller loop *)

(* The state after the arm of run_app for message c has run *)
Applied(a, c) ==
    IF c.kind = "ShowError"
    THEN [a EXCEPT !.error_message = c.err, !.mode = ErrorMode(c.err)]
    ELSE [a EXCEPT !.downloading_message = Status("Downloaded to: ", c.file),
                   !.mode = AppMode("Search")]

(* C29: in each iteration of the controller loop at most one message is    *)
(* taken from the command channel, it is taken and fully applied to the    *)
(* controller state before the loop blocks to read the next key, and       *)
(* messages are applied in the order in which they were sent: the channel  *)
(* loses a message only at the poll that precedes the read, that message   *)
(* is its oldest, and the same step applies it; a send appends.            *)
C29_OnePerIteration ==
    /\ [](\A i \in DOMAIN command_rx :
             command_rx[i].kind \in {"ShowError", "CompleteDownload"})
    /\ [][command_rx' # command_rx =>
             \/ /\ pc = "recv"
                /\ pc' = "read"
                /\ command_rx # <<>>
                /\ command_rx' = Tail(command_rx)
                /\ app' = Applied(app, Head(command_rx))
             \/ /\ Len(command_rx') = Len(command_rx) + 1
                /\ SubSeq(command_rx', 1, Len(command_rx)) = command_rx
                /\ UNCHANGED <<app, pc>>]_vars
    /\ [][pc = "read" => (app' # app => KeyStep)]_vars

C29_Witness ==
    /\ pc = "read"
    /\ last.mode = "Downloading"
    /\ last.key.code = "Down"
    /\ app.mode.tag = "Search"
    /\ app.downloading_message.text = "Downloaded to: "
    /\ command_rx = <<>>
    /\ tasks = {}

(* C30: once a background task has sent its result on the command channel, *)
(* that result is eventually applied to the controller state even if the   *)
(* user presses no further key: while the loop runs, a message in the      *)
(* channel is eventually taken from it.                                    *)
C30_ResultApplied ==
    (Running /\ command_rx # <<>>) ~> (~Running \/ command_rx = <<>>)

(* C31: every message taken from the command channel is taken while the   *)
(* mode is Downloading, and the channel never holds more than one message: *)
(* a task sends at most one message, and no task starts while a message    *)
(* waits in the channel, so no result is applied after the user has left   *)
(* the operation.                                                          *)
C31_NoStaleResult ==
    /\ [](Len(command_rx) <= 1)
    /\ [](command_rx # <<>> => (tasks = {} /\ app.mode.tag = "Downloading"))
    /\ [][Len(command_rx') < Len(command_rx) =>
             app.mode.tag = "Downloading"]_vars
    /\ [][Len(command_rx') > Len(command_rx) =>
             /\ Len(command_rx') = Len(command_rx) + 1
             /\ Cardinality(tasks') = Cardinality(tasks) - 1]_vars
    /\ [][tasks' \ tasks # {} => command_rx = <<>>]_vars

C31_Witness ==
    /\ pc = "read"
    /\ last.mode = "Downloading"
    /\ app.mode.tag = "Error"
    /\ app.error_message.text = "Download failed: "
    /\ command_rx = <<>>
    /\ tasks = {}

C33_HelpRoundTrip ==
    [][/\ (KeyStep /\ last'.key.code = "F1"
              /\ app.mode.tag \in {"Search", "Results", "DownloadSelection"})
           => app' = [app EXCEPT !.mode = AppMode("Help")]
       /\ app.mode.tag = "Help"
           => /\ app'.query = app.query
              /\ app'.books = app.books
              /\ app'.download_links = app.download_links
              /\ app'.selected_book_index = app.selected_book_index
              /\ app'.download_link_index = app.download_link_index
              /\ app'.results_scroll = app.results_scroll
              /\ app'.mode.tag \in {"Help", "Search"}
       /\ (KeyStep /\ app.mode.tag = "Help"
              /\ last'.key.code \in {"Esc", "F1"})
           => app' = [app EXCEPT !.mode = AppMode("Search")]]_vars

C33_Witness ==
    /\ last.mode = "Help"
    /\ last.key.code \in {"Esc", "F1"}
    /\ app.mode.tag = "Search"
    /\ app.query = <<"a">>
    /\ Len(app.books) = VisibleRows + 1
    /\ app.selected_book_index = VisibleRows
    /\ app.results_scroll = 1
    /\ Len(app.download_links) = MaxLinks

C36_CacheFailureHarmless ==
    /\ [][SearchBeginStep =>
             ((\/ ~has_cache
               \/ \E r \in store[call'.arg] : ~parses(r.results))
                 => (call'.at = "fetch" /\ call'.ret = NoResult))]_vars
    /\ [][SearchBeginUnreadable =>
             (call'.at = "fetch" /\ call'.ret = NoResult)]_vars
    /\ [][(call.op = "search" /\ call.at = "parse" /\ call'.at = "done") =>
             call'.ret = Ok(parse_search_results(call.resp.html,
                                                 call.max_results))]_vars
    /\ []((call.op = "search" /\ call.at = "done" /\ ~call.ret.ok)
             => fetch_failed(call.resp))

C36_Witness ==
    /\ has_cache
    /\ call.op = "search"
    /\ call.at = "done"
    /\ call.requests = 1
    /\ call.ret.ok
    /\ call.ret.value # <<>>
    /\ call.sets = 1
    /\ call.stored = 0
    /\ now = 0
    /\ \E r \in store[call.arg] : ~parses(r.results)

(* C40: cache get computes the age of a row without underflow whatever the *)
(* stored timestamp, and a row stamped later than the clock reading is not *)
(* reported as expired: a search whose cache holds such a row, with enough *)
(* books, under its query returns those books without an HTTP request and  *)
(* never panics.                                                           *)
C40_FutureEntryServed ==
    (/\ call.op = "search"
     /\ has_cache
     /\ \E r \in store[call.arg] :
           /\ now < r.timestamp
           /\ parses(r.results)
           /\ Len(r.written) >= call.max_results) =>
        /\ call.at = "done"
        /\ call.requests = 0
        /\ \E r \in store[call.arg] :
              call.ret = Ok(Take(deserialize(r.results), call.max_results))

(* C37: a download whose response has a status that is not 2xx writes no   *)
(* chunk of the body to the destination file and returns an error, never   *)
(* the path of a completed download.                                       *)
C37_ErrorStatusFails ==
    download.resp.status = "404 Not Found" =>
        /\ download.chunks = <<>>
        /\ download.at = "done" => ~download.ret.ok

(* The value of a filename= or filename*= parameter: the text after the    *)
(* '=' without its quotes, or the text after the charset and language tag  *)
ParamValue(part) ==
    IF part[1] = "filename="
    THEN SelectSeq(Tail(part), LAMBDA c : c # "\"")
    ELSE SubSeq(part, 3, Len(part))

(* C38: parse_content_disposition returns a name whenever the header       *)
(* carries both a filename= and a filename*= parameter, and that name is   *)
(* the percent-decoded value of the one that comes first in the header;    *)
(* with neither parameter it returns None.                                 *)
C38_BothForms ==
    \A h \in download.resp.disposition :
        h.ascii =>
            LET parts == [i \in DOMAIN h.parts |->
                             trim_matches(h.parts[i], " ")]
                named == {i \in DOMAIN parts :
                             /\ parts[i] # <<>>
                             /\ parts[i][1] \in {"filename=", "filename*="}}
                first == CHOOSE i \in named : \A j \in named : i <= j
                got   == parse_content_disposition(h.parts)
            IN  /\ named = {} => got = {}
                /\ (/\ \E i \in named : parts[i][1] = "filename="
                    /\ \E i \in named : parts[i][1] = "filename*=") =>
                       got = {PercentDecoded(ParamValue(parts[first]))}

(* The number of bytes of a sequence of chunks *)
RECURSIVE Bytes(_)
Bytes(chunks) ==
    IF chunks = <<>> THEN 0 ELSE Head(chunks) + Bytes(Tail(chunks))

(* C39: a download of the file name f creates no file but f, so neither    *)
(* f.part nor f.crdownload, and is_download_in_progress(f) has at every    *)
(* point of the download the value it had when download was called; a      *)
(* transfer that fails after k chunks leaves f holding exactly those k     *)
(* chunks, and a chunk whose write fails leaves f holding the chunks       *)
(* before it and less than the whole of it.                                *)
C39_NoMarkerFile ==
    download.at \notin {"send", "mkdir"} =>
        LET f == download.filename
        IN  /\ DOMAIN disk.files \ DOMAIN download.before.files \subseteq {f}
            /\ is_download_in_progress(disk.files, f) =
                   is_download_in_progress(download.before.files, f)
            /\ download.ret = Err("Failed to download chunk") =>
                   disk.files[f] = Bytes(download.chunks)
            /\ download.ret = Err("Failed to write chunk") =>
                   /\ disk.files[f] >= Bytes(download.chunks)
                   /\ disk.files[f] < Bytes(download.chunks) + MaxChunkLen

C39_Witness ==
    /\ download.at = "done"
    /\ download.ret = Err("Failed to download chunk")
    /\ Len(download.chunks) = MaxChunks
    /\ disk.files[download.filename] = Bytes(download.chunks)
    /\ is_download_in_progress(download.before.files, download.filename)
    /\ is_download_in_progress(disk.files, download.filename)

====
